---- MODULE Spec2Model ----
(***************************************************************************)
(* GCP KMS emulator: the in-memory key hierarchy (Storage), its            *)
(* authenticated encryption, and the gRPC handlers in front of it.         *)
(*                                                                         *)
(* Every Storage method holds s.mu (Lock or RLock) from its first line to  *)
(* its return, so each method is one atomic action here.                   *)
(*                                                                         *)
(* Modelling conventions                                                   *)
(*  - resource names and error messages are the strings the code builds    *)
(*    (fmt.Sprintf / fmt.Errorf), so lookups by name and the handlers'     *)
(*    strings.Contains tests are computed, not assumed;                    *)
(*  - time.Now() is a logical clock that ticks at every successful create; *)
(*  - rand.Reader yields fresh key material: two draws never collide, and  *)
(*    the 32-byte key drawn by the create that runs at tick t is written   *)
(*    as the number t; nonces are drawn from a small set and may repeat;   *)
(*  - AES-GCM is symbolic: Seal(k, n, p) is a box that Open accepts only   *)
(*    with the same key and nonce and only when no byte was changed.       *)
(***************************************************************************)
EXTENDS Integers, Sequences, FiniteSets, TLC

VARIABLES
    keyrings,   \* Storage.keyrings: name -> StoredKeyRing
    iamClient,  \* Server.iamClient: "nil" or "client"
    clock,      \* the value the next time.Now() returns
    issued,     \* ciphertexts returned by successful Encrypt calls, each with the key
                \* name and plaintext of the call and the primary version at the call
    ret,        \* the last call and what it returned
    pc,         \* where each goroutine stands in the Storage method it is running
    cur         \* the method each goroutine is running, with its arguments

vars == <<keyrings, iamClient, clock, issued, ret, pc, cur>>

----------------------------------------------------------------------------
(* Bounds *)

\* successful creates (key rings, crypto keys, versions) in one run of Spec
MaxCreates == 3
\* successful creates in one run of SpecVersions
MaxVersionCreates == 4
\* successful creates in one run of SpecCrypt
MaxCryptCreates == 3
\* successful creates in one run of SpecRpc
MaxRpcCreates == 3
\* ciphertexts remembered in one run of SpecCrypt
MaxIssued == 1

----------------------------------------------------------------------------
(* Inputs *)

Parents == {"projects/p/locations/l1", "projects/p/locations/l2"}
KeyRingIds == {"r"}
KeyRingName(parent, id) == parent \o "/keyRings/" \o id
RingNames == {KeyRingName(p, i) : p \in Parents, i \in KeyRingIds}
KeyIds == {"k1", "k2"}
Plaintexts == {"", "hello"}
OneRing == {KeyRingName("projects/p/locations/l1", "r")}
OneKeyId == {"k1"}
\* the goroutines that call Storage concurrently (one per gRPC request in flight)
Goroutines == {"g1", "g2"}
\* what cur holds for a goroutine that is in no method
NoCall == [op |-> "none", args |-> <<>>]
Nonces == {1}

States == {"PENDING_GENERATION", "ENABLED", "DISABLED", "DESTROYED", "DESTROY_SCHEDULED"}

NilLabels == [isNil |-> TRUE, m |-> {}]
LabelInputs == {NilLabels}
NilTemplate == [isNil |-> TRUE, Algorithm |-> "CRYPTO_KEY_VERSION_ALGORITHM_UNSPECIFIED"]
TemplateInputs == {NilTemplate}
Purposes == {"ENCRYPT_DECRYPT"}

\* a nil result (the value returned beside a non-nil error)
Nil == [kind |-> "nil"]

----------------------------------------------------------------------------
(* Names and maps *)

CryptoKeyName(keyringName, keyID) == keyringName \o "/cryptoKeys/" \o keyID
VersionName(keyName, versionID) == keyName \o "/cryptoKeyVersions/" \o ToString(versionID)

\* A scope is what the callers of one specification use: the key ring names and key
\* ids they name, the states they ask UpdateCryptoKeyVersion for, and how many creates
\* and remembered ciphertexts the run is cut at.
Scope(rings, keyIds, states, creates, issue) ==
    [rings |-> rings, keyIds |-> keyIds, states |-> states, creates |-> creates,
     issue |-> issue]
\* The scope of the callers of the handlers: also the parents and key ring ids they
\* hand to Server.CreateKeyRing.
HandlerScope(parents, keyRingIds, rings, keyIds, states, creates) ==
    [parents |-> parents, keyRingIds |-> keyRingIds, rings |-> rings, keyIds |-> keyIds,
     states |-> states, creates |-> creates, issue |-> 0]
KeyNames(S) == {CryptoKeyName(r, k) : r \in S.rings, k \in S.keyIds}
\* a key ring and a crypto key are created before any further version, so within
\* S.creates creates no version id exceeds S.creates - 1
VersionNames(S) == {VersionName(k, n) : k \in KeyNames(S), n \in 1..(S.creates - 1)}

\* make(map[string]...)
EmptyMap == [x \in {} |-> x]
\* m[k] = v
Put(m, k, v) == [x \in DOMAIN m \cup {k} |-> IF x = k THEN v ELSE m[x]]

\* strings.Contains
Contains(s, substr) ==
    \E i \in 1..(Len(s) - Len(substr) + 1) : SubSeq(s, i, i + Len(substr) - 1) = substr

\* All the orders in which a range over a map with key set S can visit it.
Orders(S) ==
    {o \in [1..Cardinality(S) -> S] : \A i, j \in 1..Cardinality(S) : i # j => o[i] # o[j]}

\* for _, keyring := range s.keyrings { if ck, exists := keyring.CryptoKeys[keyName] ... break }
\* The key rings in which the loop can stop; NoHit stands for cryptoKey == nil.
NoHit == "(none)"
KeyHits(ks, keyName) ==
    LET found == {r \in DOMAIN ks : keyName \in DOMAIN ks[r].CryptoKeys}
    IN  IF found = {} THEN {NoHit} ELSE found

\* for keyring { for cryptoKey { if version, exists := cryptoKey.Versions[versionName] ...
\* The <<key ring, crypto key>> pairs at which the nested loops can stop.
VersionHits(ks, versionName) ==
    LET found == UNION {{<<r, k>> : k \in {c \in DOMAIN ks[r].CryptoKeys :
                                      versionName \in DOMAIN ks[r].CryptoKeys[c].Versions}}
                        : r \in DOMAIN ks}
    IN  IF found = {} THEN {NoHit} ELSE found

\* what a Storage method hands back: the hierarchy after it, the error ("" is nil), the value
Result(ks, err, val) == [ks |-> ks, err |-> err, val |-> val]

----------------------------------------------------------------------------
(* AES-256-GCM, symbolically *)

NonceSize == 12
TagSize == 16

\* gcm.Seal(nil, nonce, plaintext, nil): the nonce is not put before the ciphertext,
\* whose first bytes are then read as the nonce
SealWithoutNonce(key, nonce, plaintext) ==
    [len   |-> Len(plaintext) + TagSize,
     nonce |-> 0,
     box   |-> [key |-> key, nonce |-> nonce, pt |-> plaintext]]

\* gcm.Seal(nonce, nonce, plaintext, nil): nonce || ciphertext || tag
Seal(key, nonce, plaintext) ==
    [len   |-> NonceSize + Len(plaintext) + TagSize,
     nonce |-> nonce,
     box   |-> [key |-> key, nonce |-> nonce, pt |-> plaintext]]

\* gcm.Open(nil, nonce, ciphertext, nil) on the bytes after the nonce prefix:
\* the tag verifies only under the sealing key and nonce, on unmodified bytes.
OpenOK(key, ct) ==
    /\ ct.len = NonceSize + Len(ct.box.pt) + TagSize
    /\ ct.box.key = key
    /\ ct.box.nonce = ct.nonce

\* decryptWithVersion with the length test off by the tag: a sealed empty plaintext
\* is taken for a short ciphertext
decryptWithVersionShort(version, ct) ==
    IF ct.len < NonceSize + TagSize + 1
    THEN [err |-> "ciphertext too short", val |-> Nil]
    ELSE IF OpenOK(version.SymmetricKey, ct)
         THEN [err |-> "", val |-> [kind |-> "bytes", bytes |-> ct.box.pt]]
         ELSE [err |-> "cipher: message authentication failed", val |-> Nil]

\* decryptWithVersion returning the bytes without verifying the tag
decryptWithVersionUnverified(version, ct) ==
    IF ct.len < NonceSize
    THEN [err |-> "ciphertext too short", val |-> Nil]
    ELSE [err |-> "", val |-> [kind |-> "bytes", bytes |-> ct.box.pt]]

\* Storage.decryptWithVersion
decryptWithVersion(version, ct) ==
    IF ct.len < NonceSize
    THEN [err |-> "ciphertext too short", val |-> Nil]
    ELSE IF OpenOK(version.SymmetricKey, ct)
         THEN [err |-> "", val |-> [kind |-> "bytes", bytes |-> ct.box.pt]]
         ELSE [err |-> "cipher: message authentication failed", val |-> Nil]

\* Corrupted inputs for Decrypt: the nonce prefix changed, the bytes cut short.
FlipNonce(ct) == [ct EXCEPT !.nonce = IF ct.nonce = 1 THEN 2 ELSE 1]
Truncate(ct, n) == [ct EXCEPT !.len = n]

----------------------------------------------------------------------------
(* Values returned to callers (kmspb messages); key material is not a field *)

KeyRingMsg(kr) == [kind |-> "KeyRing", Name |-> kr.Name, CreateTime |-> kr.CreateTime]

VersionMsg(v) ==
    [kind |-> "CryptoKeyVersion", Name |-> v.Name, State |-> v.State,
     CreateTime |-> v.CreateTime, Algorithm |-> v.Algorithm]

\* cryptoKey.Versions[cryptoKey.PrimaryVersion]: nil when the map has no such entry
PrimaryOf(ck) ==
    IF ck.PrimaryVersion \in DOMAIN ck.Versions THEN ck.Versions[ck.PrimaryVersion] ELSE Nil

\* &kmspb.CryptoKey{... Primary: &kmspb.CryptoKeyVersion{Name: primary.Name, ...} ...};
\* reading primary.Name through a nil primary panics
CryptoKeyMsg(ck) ==
    IF PrimaryOf(ck) = Nil
    THEN [kind |-> "panic"]
    ELSE [kind |-> "CryptoKey", Name |-> ck.Name, CreateTime |-> ck.CreateTime,
          Purpose |-> ck.Purpose, Primary |-> VersionMsg(PrimaryOf(ck)),
          VersionTemplate |-> ck.VersionTemplate, Labels |-> ck.Labels]

\* algorithm := GOOGLE_SYMMETRIC_ENCRYPTION unless the template names one
AlgorithmOf(versionTemplate) ==
    IF ~versionTemplate.isNil
       /\ versionTemplate.Algorithm # "CRYPTO_KEY_VERSION_ALGORITHM_UNSPECIFIED"
    THEN versionTemplate.Algorithm
    ELSE "GOOGLE_SYMMETRIC_ENCRYPTION"

----------------------------------------------------------------------------
(* Storage methods.  ks is s.keyrings on entry; now is time.Now();         *)
(* symmetricKey is what io.ReadFull(rand.Reader, ...) fills in; hit is the *)
(* place where the method's lookup loop stops.                             *)

\* CreateKeyRing that reports the duplicate only after storing the new, empty key ring
CreateKeyRingOverwrite(ks, name, now) ==
    LET keyring == [Name |-> name, CreateTime |-> now, CryptoKeys |-> EmptyMap]
    IN  IF name \in DOMAIN ks
        THEN Result(Put(ks, name, keyring), "keyring already exists: " \o name, Nil)
        ELSE Result(Put(ks, name, keyring), "", KeyRingMsg(keyring))

\* Storage.CreateKeyRing
CreateKeyRing(ks, name, now) ==
    IF name \in DOMAIN ks
    THEN Result(ks, "keyring already exists: " \o name, Nil)
    ELSE LET keyring == [Name |-> name, CreateTime |-> now, CryptoKeys |-> EmptyMap]
         IN  Result(Put(ks, name, keyring), "", KeyRingMsg(keyring))

\* CreateCryptoKey whose first version waits for generation instead of being ENABLED
CreateCryptoKeyPending(ks, keyringName, keyID, purpose, versionTemplate, labels, now, symmetricKey) ==
    LET keyName == CryptoKeyName(keyringName, keyID)
        versionName == VersionName(keyName, 1)
        version == [Name |-> versionName, State |-> "PENDING_GENERATION",
                    CreateTime |-> now, Algorithm |-> AlgorithmOf(versionTemplate),
                    SymmetricKey |-> symmetricKey]
        cryptoKey == [Name |-> keyName, CreateTime |-> now, Purpose |-> purpose,
                      PrimaryVersion |-> versionName,
                      Versions |-> Put(EmptyMap, versionName, version),
                      NextVersionID |-> 2,
                      VersionTemplate |-> versionTemplate, Labels |-> labels]
    IN  IF keyringName \notin DOMAIN ks
        THEN Result(ks, "keyring not found: " \o keyringName, Nil)
        ELSE IF keyName \in DOMAIN ks[keyringName].CryptoKeys
        THEN Result(ks, "crypto key already exists: " \o keyName, Nil)
        ELSE Result([ks EXCEPT ![keyringName].CryptoKeys = Put(@, keyName, cryptoKey)],
                    "",
                    [kind |-> "CryptoKey", Name |-> keyName, CreateTime |-> now,
                     Purpose |-> purpose,
                     Primary |-> [kind |-> "CryptoKeyVersion", Name |-> versionName,
                                  State |-> "ENABLED", CreateTime |-> now,
                                  Algorithm |-> AlgorithmOf(versionTemplate)],
                     VersionTemplate |-> versionTemplate, Labels |-> labels])

\* Storage.CreateCryptoKey
CreateCryptoKey(ks, keyringName, keyID, purpose, versionTemplate, labels, now, symmetricKey) ==
    LET keyName == CryptoKeyName(keyringName, keyID)
        versionName == VersionName(keyName, 1)
        version == [Name |-> versionName, State |-> "ENABLED", CreateTime |-> now,
                    Algorithm |-> AlgorithmOf(versionTemplate),
                    SymmetricKey |-> symmetricKey]
        cryptoKey == [Name |-> keyName, CreateTime |-> now, Purpose |-> purpose,
                      PrimaryVersion |-> versionName,
                      Versions |-> Put(EmptyMap, versionName, version),
                      NextVersionID |-> 2,
                      VersionTemplate |-> versionTemplate, Labels |-> labels]
    IN  IF keyringName \notin DOMAIN ks
        THEN Result(ks, "keyring not found: " \o keyringName, Nil)
        ELSE IF keyName \in DOMAIN ks[keyringName].CryptoKeys
        THEN Result(ks, "crypto key already exists: " \o keyName, Nil)
        ELSE Result([ks EXCEPT ![keyringName].CryptoKeys = Put(@, keyName, cryptoKey)],
                    "",
                    [kind |-> "CryptoKey", Name |-> keyName, CreateTime |-> now,
                     Purpose |-> purpose,
                     Primary |-> [kind |-> "CryptoKeyVersion", Name |-> versionName,
                                  State |-> "ENABLED", CreateTime |-> now,
                                  Algorithm |-> AlgorithmOf(versionTemplate)],
                     VersionTemplate |-> versionTemplate, Labels |-> labels])

\* Storage.GetCryptoKey
GetCryptoKey(ks, hit, name) ==
    IF hit = NoHit
    THEN Result(ks, "crypto key not found: " \o name, Nil)
    ELSE Result(ks, "", CryptoKeyMsg(ks[hit].CryptoKeys[name]))

\* Encrypt without the test of the primary version's state
EncryptAnyState(ks, hit, keyName, plaintext, nonce) ==
    IF hit = NoHit
    THEN Result(ks, "crypto key not found: " \o keyName, Nil)
    ELSE LET cryptoKey == ks[hit].CryptoKeys[keyName]
             primaryVersion == PrimaryOf(cryptoKey)
         IN  IF primaryVersion = Nil
             THEN Result(ks, "primary version not found", Nil)
             ELSE Result(ks, "",
                         [kind |-> "ciphertext",
                          ct |-> Seal(primaryVersion.SymmetricKey, nonce, plaintext)])

\* Storage.Encrypt
Encrypt(ks, hit, keyName, plaintext, nonce) ==
    IF hit = NoHit
    THEN Result(ks, "crypto key not found: " \o keyName, Nil)
    ELSE LET cryptoKey == ks[hit].CryptoKeys[keyName]
             primaryVersion == PrimaryOf(cryptoKey)
         IN  IF primaryVersion = Nil
             THEN Result(ks, "primary version not found", Nil)
             ELSE IF primaryVersion.State # "ENABLED"
             THEN Result(ks, "primary version is not enabled", Nil)
             ELSE Result(ks, "",
                         [kind |-> "ciphertext",
                          ct |-> Seal(primaryVersion.SymmetricKey, nonce, plaintext)])

\* DecryptLoop that returns what the first ENABLED version it visits gives, error
\* or not
RECURSIVE DecryptLoopStopAtFirst(_, _, _, _)
DecryptLoopStopAtFirst(versions, order, i, ct) ==
    IF i > Len(order)
    THEN [err |-> "failed to decrypt with any key version", val |-> Nil]
    ELSE LET version == versions[order[i]]
         IN  IF version.State # "ENABLED"
             THEN DecryptLoopStopAtFirst(versions, order, i + 1, ct)
             ELSE decryptWithVersion(version, ct)

\* DecryptLoop without the skip: every version is tried, whatever its state
RECURSIVE DecryptLoopAllVersions(_, _, _, _)
DecryptLoopAllVersions(versions, order, i, ct) ==
    IF i > Len(order)
    THEN [err |-> "failed to decrypt with any key version", val |-> Nil]
    ELSE LET version == versions[order[i]]
         IN  IF decryptWithVersion(version, ct).err = ""
             THEN decryptWithVersion(version, ct)
             ELSE DecryptLoopAllVersions(versions, order, i + 1, ct)

\* DecryptLoop skipping DESTROYED versions only, the rule of docs/FEATURES.md
RECURSIVE DecryptLoopPerDocs(_, _, _, _)
DecryptLoopPerDocs(versions, order, i, ct) ==
    IF i > Len(order)
    THEN [err |-> "failed to decrypt with any key version", val |-> Nil]
    ELSE LET version == versions[order[i]]
         IN  IF version.State \notin {"ENABLED", "DISABLED", "DESTROY_SCHEDULED"}
             THEN DecryptLoopPerDocs(versions, order, i + 1, ct)
             ELSE IF decryptWithVersion(version, ct).err = ""
                  THEN decryptWithVersion(version, ct)
                  ELSE DecryptLoopPerDocs(versions, order, i + 1, ct)

\* The loop of Storage.Decrypt over cryptoKey.Versions, visited in the order given,
\* from position i on: skip what is not ENABLED, return on the first success.
RECURSIVE DecryptLoop(_, _, _, _)
DecryptLoop(versions, order, i, ct) ==
    IF i > Len(order)
    THEN [err |-> "failed to decrypt with any key version", val |-> Nil]
    ELSE LET version == versions[order[i]]
         IN  IF version.State # "ENABLED"
             THEN DecryptLoop(versions, order, i + 1, ct)
             ELSE IF decryptWithVersion(version, ct).err = ""
                  THEN decryptWithVersion(version, ct)
                  ELSE DecryptLoop(versions, order, i + 1, ct)

\* Storage.Decrypt; order is the order in which the range visits cryptoKey.Versions
Decrypt(ks, hit, keyName, ct, order) ==
    IF hit = NoHit
    THEN Result(ks, "crypto key not found: " \o keyName, Nil)
    ELSE LET r == DecryptLoop(ks[hit].CryptoKeys[keyName].Versions, order, 1, ct)
         IN  Result(ks, r.err, r.val)

\* CreateCryptoKeyVersion that forgets cryptoKey.NextVersionID++
CreateCryptoKeyVersionSameID(ks, hit, keyName, now, symmetricKey) ==
    IF hit = NoHit
    THEN Result(ks, "crypto key not found: " \o keyName, Nil)
    ELSE LET cryptoKey == ks[hit].CryptoKeys[keyName]
             versionID == cryptoKey.NextVersionID
             versionName == VersionName(keyName, versionID)
             version == [Name |-> versionName, State |-> "ENABLED", CreateTime |-> now,
                         Algorithm |-> AlgorithmOf(cryptoKey.VersionTemplate),
                         SymmetricKey |-> symmetricKey]
         IN  Result([ks EXCEPT ![hit].CryptoKeys[keyName] =
                        [@ EXCEPT !.Versions = Put(@, versionName, version)]],
                    "",
                    [kind |-> "CryptoKeyVersion", Name |-> versionName, State |-> "ENABLED",
                     CreateTime |-> now,
                     Algorithm |-> AlgorithmOf(cryptoKey.VersionTemplate)])

\* CreateCryptoKeyVersion that also makes the new version the primary
CreateCryptoKeyVersionRepoint(ks, hit, keyName, now, symmetricKey) ==
    IF hit = NoHit
    THEN Result(ks, "crypto key not found: " \o keyName, Nil)
    ELSE LET cryptoKey == ks[hit].CryptoKeys[keyName]
             versionID == cryptoKey.NextVersionID
             versionName == VersionName(keyName, versionID)
             version == [Name |-> versionName, State |-> "ENABLED", CreateTime |-> now,
                         Algorithm |-> AlgorithmOf(cryptoKey.VersionTemplate),
                         SymmetricKey |-> symmetricKey]
         IN  Result([ks EXCEPT ![hit].CryptoKeys[keyName] =
                        [@ EXCEPT !.Versions = Put(@, versionName, version),
                                  !.NextVersionID = @ + 1,
                                  !.PrimaryVersion = versionName]],
                    "",
                    [kind |-> "CryptoKeyVersion", Name |-> versionName, State |-> "ENABLED",
                     CreateTime |-> now,
                     Algorithm |-> AlgorithmOf(cryptoKey.VersionTemplate)])

\* Storage.CreateCryptoKeyVersion
CreateCryptoKeyVersion(ks, hit, keyName, now, symmetricKey) ==
    IF hit = NoHit
    THEN Result(ks, "crypto key not found: " \o keyName, Nil)
    ELSE LET cryptoKey == ks[hit].CryptoKeys[keyName]
             versionID == cryptoKey.NextVersionID
             versionName == VersionName(keyName, versionID)
             version == [Name |-> versionName, State |-> "ENABLED", CreateTime |-> now,
                         Algorithm |-> AlgorithmOf(cryptoKey.VersionTemplate),
                         SymmetricKey |-> symmetricKey]
         IN  Result([ks EXCEPT ![hit].CryptoKeys[keyName] =
                        [@ EXCEPT !.Versions = Put(@, versionName, version),
                                  !.NextVersionID = @ + 1]],
                    "",
                    [kind |-> "CryptoKeyVersion", Name |-> versionName, State |-> "ENABLED",
                     CreateTime |-> now,
                     Algorithm |-> AlgorithmOf(cryptoKey.VersionTemplate)])

\* UpdateCryptoKeyPrimaryVersion that validates and answers but stores no new pointer
UpdateCryptoKeyPrimaryVersionUnstored(ks, hit, keyName, versionName) ==
    IF hit = NoHit
    THEN Result(ks, "crypto key not found: " \o keyName, Nil)
    ELSE LET cryptoKey == ks[hit].CryptoKeys[keyName]
         IN  IF versionName \notin DOMAIN cryptoKey.Versions
             THEN Result(ks, "crypto key version not found: " \o versionName, Nil)
             ELSE IF cryptoKey.Versions[versionName].State # "ENABLED"
             THEN Result(ks, "crypto key version is not enabled: " \o versionName, Nil)
             ELSE Result(ks, "",
                         CryptoKeyMsg([cryptoKey EXCEPT !.PrimaryVersion = versionName]))

\* UpdateCryptoKeyPrimaryVersion without the lookup of the version in the key
UpdateCryptoKeyPrimaryVersionUnchecked(ks, hit, keyName, versionName) ==
    IF hit = NoHit
    THEN Result(ks, "crypto key not found: " \o keyName, Nil)
    ELSE LET cryptoKey == ks[hit].CryptoKeys[keyName]
             after == [cryptoKey EXCEPT !.PrimaryVersion = versionName]
         IN  Result([ks EXCEPT ![hit].CryptoKeys[keyName] = after], "", Nil)

\* Storage.UpdateCryptoKeyPrimaryVersion
UpdateCryptoKeyPrimaryVersion(ks, hit, keyName, versionName) ==
    IF hit = NoHit
    THEN Result(ks, "crypto key not found: " \o keyName, Nil)
    ELSE LET cryptoKey == ks[hit].CryptoKeys[keyName]
         IN  IF versionName \notin DOMAIN cryptoKey.Versions
             THEN Result(ks, "crypto key version not found: " \o versionName, Nil)
             ELSE IF cryptoKey.Versions[versionName].State # "ENABLED"
             THEN Result(ks, "crypto key version is not enabled: " \o versionName, Nil)
             ELSE LET after == [cryptoKey EXCEPT !.PrimaryVersion = versionName]
                  IN  Result([ks EXCEPT ![hit].CryptoKeys[keyName] = after],
                             "", CryptoKeyMsg(after))

\* UpdateCryptoKeyVersion that refuses to change the state of a DESTROYED version
UpdateCryptoKeyVersionGuarded(ks, hit, versionName, state) ==
    IF hit = NoHit
    THEN Result(ks, "crypto key version not found: " \o versionName, Nil)
    ELSE LET after == [ks EXCEPT
                 ![hit[1]].CryptoKeys[hit[2]].Versions[versionName].State = state]
         IN  IF ks[hit[1]].CryptoKeys[hit[2]].Versions[versionName].State = "DESTROYED"
             THEN Result(ks, "invalid state transition: " \o versionName, Nil)
             ELSE Result(after, "",
                         VersionMsg(after[hit[1]].CryptoKeys[hit[2]].Versions[versionName]))

\* UpdateCryptoKeyVersion taken for a rotation: enabling a version gives it new key
\* material
UpdateCryptoKeyVersionRekey(ks, hit, versionName, state) ==
    IF hit = NoHit
    THEN Result(ks, "crypto key version not found: " \o versionName, Nil)
    ELSE LET after == [ks EXCEPT
                 ![hit[1]].CryptoKeys[hit[2]].Versions[versionName] =
                     [@ EXCEPT !.State = state,
                               !.SymmetricKey = IF state = "ENABLED" THEN 0 ELSE @]]
         IN  Result(after, "",
                    VersionMsg(after[hit[1]].CryptoKeys[hit[2]].Versions[versionName]))

\* Storage.UpdateCryptoKeyVersion; hit is <<key ring, crypto key>> or NoHit
UpdateCryptoKeyVersion(ks, hit, versionName, state) ==
    IF hit = NoHit
    THEN Result(ks, "crypto key version not found: " \o versionName, Nil)
    ELSE LET after == [ks EXCEPT
                 ![hit[1]].CryptoKeys[hit[2]].Versions[versionName].State = state]
         IN  Result(after, "",
                    VersionMsg(after[hit[1]].CryptoKeys[hit[2]].Versions[versionName]))

\* DestroyCryptoKeyVersion that also completes the destruction of the key's other
\* scheduled versions
DestroyCryptoKeyVersionSweep(ks, hit, versionName) ==
    IF hit = NoHit
    THEN Result(ks, "crypto key version not found: " \o versionName, Nil)
    ELSE LET version == ks[hit[1]].CryptoKeys[hit[2]].Versions[versionName]
             after == [ks EXCEPT ![hit[1]].CryptoKeys[hit[2]].Versions =
                 [v \in DOMAIN @ |->
                     IF v = versionName THEN [@[v] EXCEPT !.State = "DESTROY_SCHEDULED"]
                     ELSE IF @[v].State = "DESTROY_SCHEDULED"
                     THEN [@[v] EXCEPT !.State = "DESTROYED"]
                     ELSE @[v]]]
         IN  IF version.State = "DESTROYED" \/ version.State = "DESTROY_SCHEDULED"
             THEN Result(ks, "crypto key version already destroyed or scheduled: "
                             \o versionName, Nil)
             ELSE Result(after, "",
                         VersionMsg(after[hit[1]].CryptoKeys[hit[2]].Versions[versionName]))

\* DestroyCryptoKeyVersion that takes the version out of cryptoKey.Versions
DestroyCryptoKeyVersionRemove(ks, hit, versionName) ==
    IF hit = NoHit
    THEN Result(ks, "crypto key version not found: " \o versionName, Nil)
    ELSE LET versions == ks[hit[1]].CryptoKeys[hit[2]].Versions
             version == versions[versionName]
         IN  IF version.State = "DESTROYED" \/ version.State = "DESTROY_SCHEDULED"
             THEN Result(ks, "crypto key version already destroyed or scheduled: "
                             \o versionName, Nil)
             ELSE Result([ks EXCEPT ![hit[1]].CryptoKeys[hit[2]].Versions =
                             [v \in DOMAIN versions \ {versionName} |-> versions[v]]],
                         "", VersionMsg([version EXCEPT !.State = "DESTROY_SCHEDULED"]))

\* DestroyCryptoKeyVersion as the lifecycle diagram of docs/key-creation-flow.md draws
\* it: from DISABLED only
DestroyCryptoKeyVersionFromDisabled(ks, hit, versionName) ==
    IF hit = NoHit
    THEN Result(ks, "crypto key version not found: " \o versionName, Nil)
    ELSE LET version == ks[hit[1]].CryptoKeys[hit[2]].Versions[versionName]
             after == [ks EXCEPT
                 ![hit[1]].CryptoKeys[hit[2]].Versions[versionName].State =
                     "DESTROY_SCHEDULED"]
         IN  IF version.State = "DESTROYED" \/ version.State = "DESTROY_SCHEDULED"
             THEN Result(ks, "crypto key version already destroyed or scheduled: "
                             \o versionName, Nil)
             ELSE IF version.State # "DISABLED"
             THEN Result(ks, "crypto key version is not disabled: " \o versionName, Nil)
             ELSE Result(after, "",
                         VersionMsg(after[hit[1]].CryptoKeys[hit[2]].Versions[versionName]))

\* DestroyCryptoKeyVersion that also zeroes the key material of the version
DestroyCryptoKeyVersionWipe(ks, hit, versionName) ==
    IF hit = NoHit
    THEN Result(ks, "crypto key version not found: " \o versionName, Nil)
    ELSE LET version == ks[hit[1]].CryptoKeys[hit[2]].Versions[versionName]
             after == [ks EXCEPT
                 ![hit[1]].CryptoKeys[hit[2]].Versions[versionName] =
                     [@ EXCEPT !.State = "DESTROY_SCHEDULED", !.SymmetricKey = 0]]
         IN  IF version.State = "DESTROYED" \/ version.State = "DESTROY_SCHEDULED"
             THEN Result(ks, "crypto key version already destroyed or scheduled: "
                             \o versionName, Nil)
             ELSE Result(after, "",
                         VersionMsg(after[hit[1]].CryptoKeys[hit[2]].Versions[versionName]))

\* DestroyCryptoKeyVersion that refuses the version its key's primary pointer names
DestroyCryptoKeyVersionSparePrimary(ks, hit, versionName) ==
    IF hit = NoHit
    THEN Result(ks, "crypto key version not found: " \o versionName, Nil)
    ELSE LET version == ks[hit[1]].CryptoKeys[hit[2]].Versions[versionName]
             after == [ks EXCEPT
                 ![hit[1]].CryptoKeys[hit[2]].Versions[versionName].State =
                     "DESTROY_SCHEDULED"]
         IN  IF version.State = "DESTROYED" \/ version.State = "DESTROY_SCHEDULED"
             THEN Result(ks, "crypto key version already destroyed or scheduled: "
                             \o versionName, Nil)
             ELSE IF ks[hit[1]].CryptoKeys[hit[2]].PrimaryVersion = versionName
             THEN Result(ks, "crypto key version is primary: " \o versionName, Nil)
             ELSE Result(after, "",
                         VersionMsg(after[hit[1]].CryptoKeys[hit[2]].Versions[versionName]))

\* Storage.DestroyCryptoKeyVersion; hit is <<key ring, crypto key>> or NoHit
DestroyCryptoKeyVersion(ks, hit, versionName) ==
    IF hit = NoHit
    THEN Result(ks, "crypto key version not found: " \o versionName, Nil)
    ELSE LET version == ks[hit[1]].CryptoKeys[hit[2]].Versions[versionName]
             after == [ks EXCEPT
                 ![hit[1]].CryptoKeys[hit[2]].Versions[versionName].State =
                     "DESTROY_SCHEDULED"]
         IN  IF version.State = "DESTROYED" \/ version.State = "DESTROY_SCHEDULED"
             THEN Result(ks, "crypto key version already destroyed or scheduled: "
                             \o versionName, Nil)
             ELSE Result(after, "",
                         VersionMsg(after[hit[1]].CryptoKeys[hit[2]].Versions[versionName]))

\* UpdateCryptoKey without the test labels != nil: a nil map replaces the labels too
UpdateCryptoKeyAlwaysAssign(ks, hit, keyName, labels) ==
    IF hit = NoHit
    THEN Result(ks, "crypto key not found: " \o keyName, Nil)
    ELSE LET after == [ks EXCEPT ![hit].CryptoKeys[keyName].Labels = labels]
         IN  Result(after, "", CryptoKeyMsg(after[hit].CryptoKeys[keyName]))

\* Storage.UpdateCryptoKey: the labels are replaced unless the caller's map is nil
UpdateCryptoKey(ks, hit, keyName, labels) ==
    IF hit = NoHit
    THEN Result(ks, "crypto key not found: " \o keyName, Nil)
    ELSE LET after == IF labels.isNil THEN ks
                      ELSE [ks EXCEPT ![hit].CryptoKeys[keyName].Labels = labels]
         IN  Result(after, "", CryptoKeyMsg(after[hit].CryptoKeys[keyName]))

\* Storage.GetKeyRing
GetKeyRing(ks, name) ==
    IF name \notin DOMAIN ks
    THEN Result(ks, "keyring not found: " \o name, Nil)
    ELSE Result(ks, "", KeyRingMsg(ks[name]))

\* Storage.ListKeyRings; order is the order in which the range visits s.keyrings.
\* The loop appends every key ring; parent is not read.
ListKeyRings(ks, parent, order) ==
    Result(ks, "", [i \in 1..Len(order) |-> KeyRingMsg(ks[order[i]])])

\* Storage.ListCryptoKeys; order is the order in which the range visits
\* keyring.CryptoKeys
ListCryptoKeys(ks, keyringName, order) ==
    IF keyringName \notin DOMAIN ks
    THEN Result(ks, "keyring not found: " \o keyringName, Nil)
    ELSE Result(ks, "",
                [i \in 1..Len(order) |-> CryptoKeyMsg(ks[keyringName].CryptoKeys[order[i]])])

\* Storage.GetCryptoKeyVersion; hit is <<key ring, crypto key>> or NoHit
GetCryptoKeyVersion(ks, hit, versionName) ==
    IF hit = NoHit
    THEN Result(ks, "crypto key version not found: " \o versionName, Nil)
    ELSE Result(ks, "", VersionMsg(ks[hit[1]].CryptoKeys[hit[2]].Versions[versionName]))

\* ListCryptoKeyVersions leaving out the versions destroyed or scheduled for it
ListCryptoKeyVersionsLive(ks, hit, keyName, order) ==
    IF hit = NoHit
    THEN Result(ks, "crypto key not found: " \o keyName, Nil)
    ELSE LET versions == ks[hit].CryptoKeys[keyName].Versions
             Live(v) == versions[v].State \notin {"DESTROYED", "DESTROY_SCHEDULED"}
             live == SelectSeq(order, Live)
         IN  Result(ks, "", [i \in 1..Len(live) |-> VersionMsg(versions[live[i]])])

\* Storage.ListCryptoKeyVersions; order is the order in which the range visits
\* cryptoKey.Versions
ListCryptoKeyVersions(ks, hit, keyName, order) ==
    IF hit = NoHit
    THEN Result(ks, "crypto key not found: " \o keyName, Nil)
    ELSE Result(ks, "",
                [i \in 1..Len(order) |->
                    VersionMsg(ks[hit].CryptoKeys[keyName].Versions[order[i]])])

\* Storage.Clear
Clear(ks) == Result(EmptyMap, "", Nil)

----------------------------------------------------------------------------
(* gRPC handlers (package server) *)

\* authz.OperationPermissions: the operations that have an entry
OperationPermissions ==
    {"CreateKeyRing", "GetKeyRing", "ListKeyRings", "CreateCryptoKey", "GetCryptoKey",
     "ListCryptoKeys", "UpdateCryptoKey", "Encrypt", "Decrypt", "CreateCryptoKeyVersion",
     "GetCryptoKeyVersion", "ListCryptoKeyVersions", "UpdateCryptoKeyVersion",
     "UpdateCryptoKeyPrimaryVersion", "DestroyCryptoKeyVersion",
     "RestoreCryptoKeyVersion", "GetPublicKey", "AsymmetricSign", "AsymmetricDecrypt",
     "MacSign", "MacVerify"}

\* what iamClient.CheckPermission can return: (true, nil), (false, nil), (_, err)
IamAnswers == {"allowed", "denied", "error"}

\* CheckPermission is called only when an IAM client is configured
AnswersFor(client) == IF client = "nil" THEN {"unasked"} ELSE IamAnswers

\* Server.checkPermission: the status it returns, code "OK" for nil
checkPermission(client, operation, iamAnswer) ==
    IF client = "nil" THEN [code |-> "OK", err |-> ""]
    ELSE IF operation \notin OperationPermissions THEN [code |-> "OK", err |-> ""]
    ELSE IF iamAnswer = "error"
         THEN [code |-> "Internal", err |-> "IAM check failed: " \o iamAnswer]
    ELSE IF iamAnswer # "allowed"
         THEN [code |-> "PermissionDenied", err |-> "Permission denied"]
    ELSE [code |-> "OK", err |-> ""]

\* a handler's answer: the hierarchy after it, the status code, the message, the value
Reply(ks, code, err, val) == [ks |-> ks, code |-> code, err |-> err, val |-> val]

\* Server.CreateKeyRing
ServerCreateKeyRing(ks, client, iamAnswer, parent, keyRingId, now) ==
    LET perm == checkPermission(client, "CreateKeyRing", iamAnswer)
        r == CreateKeyRing(ks, KeyRingName(parent, keyRingId), now)
    IN  IF parent = "" THEN Reply(ks, "InvalidArgument", "parent is required", Nil)
        ELSE IF keyRingId = ""
        THEN Reply(ks, "InvalidArgument", "key_ring_id is required", Nil)
        ELSE IF perm.code # "OK" THEN Reply(ks, perm.code, perm.err, Nil)
        ELSE IF r.err # ""
        THEN IF Contains(r.err, "already exists")
             THEN Reply(r.ks, "AlreadyExists", r.err, Nil)
             ELSE Reply(r.ks, "Internal", r.err, Nil)
        ELSE Reply(r.ks, "OK", "", r.val)

\* req.CryptoKey of a CreateCryptoKeyRequest: nil, or a key with its fields
NilCryptoKey == [isNil |-> TRUE, Purpose |-> "CRYPTO_KEY_PURPOSE_UNSPECIFIED",
                 VersionTemplate |-> NilTemplate, Labels |-> NilLabels]
CryptoKeyInputs ==
    {NilCryptoKey,
     [isNil |-> FALSE, Purpose |-> "CRYPTO_KEY_PURPOSE_UNSPECIFIED",
      VersionTemplate |-> NilTemplate, Labels |-> NilLabels]}

\* Server.CreateCryptoKey
ServerCreateCryptoKey(ks, client, iamAnswer, parent, cryptoKeyId, cryptoKey, now, symmetricKey) ==
    LET perm == checkPermission(client, "CreateCryptoKey", iamAnswer)
        purpose == IF cryptoKey.Purpose = "CRYPTO_KEY_PURPOSE_UNSPECIFIED"
                   THEN "ENCRYPT_DECRYPT" ELSE cryptoKey.Purpose
        r == CreateCryptoKey(ks, parent, cryptoKeyId, purpose, cryptoKey.VersionTemplate,
                             cryptoKey.Labels, now, symmetricKey)
    IN  IF parent = "" THEN Reply(ks, "InvalidArgument", "parent is required", Nil)
        ELSE IF cryptoKeyId = ""
        THEN Reply(ks, "InvalidArgument", "crypto_key_id is required", Nil)
        ELSE IF cryptoKey.isNil
        THEN Reply(ks, "InvalidArgument", "crypto_key is required", Nil)
        ELSE IF perm.code # "OK" THEN Reply(ks, perm.code, perm.err, Nil)
        ELSE IF r.err # ""
        THEN IF Contains(r.err, "already exists")
             THEN Reply(r.ks, "AlreadyExists", r.err, Nil)
             ELSE IF Contains(r.err, "not found")
             THEN Reply(r.ks, "NotFound", r.err, Nil)
             ELSE Reply(r.ks, "Internal", r.err, Nil)
        ELSE Reply(r.ks, "OK", "", r.val)

\* Server.CreateCryptoKeyVersion
ServerCreateCryptoKeyVersion(ks, client, iamAnswer, hit, parent, now, symmetricKey) ==
    LET perm == checkPermission(client, "CreateCryptoKeyVersion", iamAnswer)
        r == CreateCryptoKeyVersion(ks, hit, parent, now, symmetricKey)
    IN  IF parent = "" THEN Reply(ks, "InvalidArgument", "parent is required", Nil)
        ELSE IF perm.code # "OK" THEN Reply(ks, perm.code, perm.err, Nil)
        ELSE IF r.err # ""
        THEN IF Contains(r.err, "not found")
             THEN Reply(r.ks, "NotFound", r.err, Nil)
             ELSE Reply(r.ks, "Internal", r.err, Nil)
        ELSE Reply(r.ks, "OK", "", r.val)

\* req.CryptoKeyVersion of an UpdateCryptoKeyVersionRequest: nil, or a version with
\* its name and state
NilCryptoKeyVersion == [isNil |-> TRUE, Name |-> "", State |-> "CRYPTO_KEY_VERSION_STATE_UNSPECIFIED"]
CryptoKeyVersionInputs(names, states) ==
    {NilCryptoKeyVersion}
        \cup {[isNil |-> FALSE, Name |-> n, State |-> st] :
                  n \in names \cup {""}, st \in states}

\* Server.UpdateCryptoKeyVersion; hit is where Storage's lookup of the name stops
ServerUpdateCryptoKeyVersion(ks, client, iamAnswer, hit, cryptoKeyVersion) ==
    LET perm == checkPermission(client, "UpdateCryptoKeyVersion", iamAnswer)
        r == UpdateCryptoKeyVersion(ks, hit, cryptoKeyVersion.Name, cryptoKeyVersion.State)
    IN  IF cryptoKeyVersion.isNil \/ cryptoKeyVersion.Name = ""
        THEN Reply(ks, "InvalidArgument", "crypto_key_version.name is required", Nil)
        ELSE IF cryptoKeyVersion.State = "CRYPTO_KEY_VERSION_STATE_UNSPECIFIED"
        THEN Reply(ks, "InvalidArgument", "crypto_key_version.state is required", Nil)
        ELSE IF perm.code # "OK" THEN Reply(ks, perm.code, perm.err, Nil)
        ELSE IF r.err # ""
        THEN IF Contains(r.err, "not found")
             THEN Reply(r.ks, "NotFound", r.err, Nil)
             ELSE Reply(r.ks, "Internal", r.err, Nil)
        ELSE Reply(r.ks, "OK", "", r.val)

\* versionName := fmt.Sprintf("%s/cryptoKeyVersions/%s", req.Name, req.CryptoKeyVersionId)
RequestedVersionName(name, cryptoKeyVersionId) ==
    name \o "/cryptoKeyVersions/" \o cryptoKeyVersionId

\* Server.UpdateCryptoKeyPrimaryVersion answering FailedPrecondition for every error
\* of Storage
ServerUpdateCryptoKeyPrimaryVersionAllFailed(ks, client, iamAnswer, hit, name, cryptoKeyVersionId) ==
    LET perm == checkPermission(client, "UpdateCryptoKeyPrimaryVersion", iamAnswer)
        r == UpdateCryptoKeyPrimaryVersion(ks, hit, name,
                                           RequestedVersionName(name, cryptoKeyVersionId))
    IN  IF name = "" THEN Reply(ks, "InvalidArgument", "name is required", Nil)
        ELSE IF cryptoKeyVersionId = ""
        THEN Reply(ks, "InvalidArgument", "crypto_key_version_id is required", Nil)
        ELSE IF perm.code # "OK" THEN Reply(ks, perm.code, perm.err, Nil)
        ELSE IF r.err # ""
        THEN Reply(r.ks, "FailedPrecondition", r.err, Nil)
        ELSE Reply(r.ks, "OK", "", r.val)

\* Server.UpdateCryptoKeyPrimaryVersion
ServerUpdateCryptoKeyPrimaryVersion(ks, client, iamAnswer, hit, name, cryptoKeyVersionId) ==
    LET perm == checkPermission(client, "UpdateCryptoKeyPrimaryVersion", iamAnswer)
        r == UpdateCryptoKeyPrimaryVersion(ks, hit, name,
                                           RequestedVersionName(name, cryptoKeyVersionId))
    IN  IF name = "" THEN Reply(ks, "InvalidArgument", "name is required", Nil)
        ELSE IF cryptoKeyVersionId = ""
        THEN Reply(ks, "InvalidArgument", "crypto_key_version_id is required", Nil)
        ELSE IF perm.code # "OK" THEN Reply(ks, perm.code, perm.err, Nil)
        ELSE IF r.err # ""
        THEN IF Contains(r.err, "not found")
             THEN Reply(r.ks, "NotFound", r.err, Nil)
             ELSE IF Contains(r.err, "not enabled")
             THEN Reply(r.ks, "FailedPrecondition", r.err, Nil)
             ELSE Reply(r.ks, "Internal", r.err, Nil)
        ELSE Reply(r.ks, "OK", "", r.val)

\* Server.DestroyCryptoKeyVersion calling Storage before it checks the permission
ServerDestroyCryptoKeyVersionStorageFirst(ks, client, iamAnswer, hit, name) ==
    LET perm == checkPermission(client, "DestroyCryptoKeyVersion", iamAnswer)
        r == DestroyCryptoKeyVersion(ks, hit, name)
    IN  IF name = "" THEN Reply(ks, "InvalidArgument", "name is required", Nil)
        ELSE IF perm.code # "OK" THEN Reply(r.ks, perm.code, perm.err, Nil)
        ELSE IF r.err # ""
        THEN IF Contains(r.err, "not found")
             THEN Reply(r.ks, "NotFound", r.err, Nil)
             ELSE IF Contains(r.err, "already destroyed")
             THEN Reply(r.ks, "FailedPrecondition", r.err, Nil)
             ELSE Reply(r.ks, "Internal", r.err, Nil)
        ELSE Reply(r.ks, "OK", "", r.val)

\* Server.DestroyCryptoKeyVersion
ServerDestroyCryptoKeyVersion(ks, client, iamAnswer, hit, name) ==
    LET perm == checkPermission(client, "DestroyCryptoKeyVersion", iamAnswer)
        r == DestroyCryptoKeyVersion(ks, hit, name)
    IN  IF name = "" THEN Reply(ks, "InvalidArgument", "name is required", Nil)
        ELSE IF perm.code # "OK" THEN Reply(ks, perm.code, perm.err, Nil)
        ELSE IF r.err # ""
        THEN IF Contains(r.err, "not found")
             THEN Reply(r.ks, "NotFound", r.err, Nil)
             ELSE IF Contains(r.err, "already destroyed")
             THEN Reply(r.ks, "FailedPrecondition", r.err, Nil)
             ELSE Reply(r.ks, "Internal", r.err, Nil)
        ELSE Reply(r.ks, "OK", "", r.val)

----------------------------------------------------------------------------
(* The state machine *)

\* the record kept of the last call: method, arguments (for a handler, followed by what
\* the IAM service answered), status code (handlers only), error message ("" is nil)
\* and returned value
Ret(op, args, code, err, val) ==
    [op |-> op, args |-> args, code |-> code, err |-> err, val |-> val]

\* NewStorage / NewServer: no key rings; the IAM client is configured or not
Init ==
    /\ keyrings = EmptyMap
    /\ iamClient \in {"nil", "client"}
    /\ clock = 1
    /\ issued = {}
    /\ ret = Ret("NewServer", <<>>, "", "", Nil)
    /\ pc = [g \in Goroutines |-> "idle"]
    /\ cur = [g \in Goroutines |-> NoCall]

\* a create that succeeds reads the clock once; the bound stops the run, not the call
Tick(S, r) ==
    /\ r.err = "" => clock <= S.creates
    /\ clock' = IF r.err = "" THEN clock + 1 ELSE clock

\* the key buffer as make([]byte, 32) leaves it when the random source is not read
ZeroKey == 0

\* the key that io.ReadFull(rand.Reader, symmetricKey) fills in at this tick
FreshKey == clock

CallCreateKeyRing(S) ==
    \E name \in S.rings :
        LET r == CreateKeyRing(keyrings, name, clock)
        IN  /\ Tick(S, r)
            /\ keyrings' = r.ks
            /\ ret' = Ret("CreateKeyRing", <<name>>, "", r.err, r.val)
            /\ UNCHANGED <<pc, cur, iamClient, issued>>

CallCreateCryptoKey(S) ==
    \E keyringName \in S.rings, keyID \in S.keyIds, purpose \in Purposes,
       versionTemplate \in TemplateInputs, labels \in LabelInputs :
        LET r == CreateCryptoKey(keyrings, keyringName, keyID, purpose, versionTemplate,
                                 labels, clock, FreshKey)
        IN  /\ Tick(S, r)
            /\ keyrings' = r.ks
            /\ ret' = Ret("CreateCryptoKey", <<keyringName, keyID>>, "", r.err, r.val)
            /\ UNCHANGED <<pc, cur, iamClient, issued>>

CallGetCryptoKey(S) ==
    \E name \in KeyNames(S) : \E hit \in KeyHits(keyrings, name) :
        LET r == GetCryptoKey(keyrings, hit, name)
        IN  /\ keyrings' = r.ks
            /\ ret' = Ret("GetCryptoKey", <<name>>, "", r.err, r.val)
            /\ UNCHANGED <<pc, cur, iamClient, clock, issued>>

CallEncrypt(S) ==
    \E keyName \in KeyNames(S), plaintext \in Plaintexts, nonce \in Nonces :
      \E hit \in KeyHits(keyrings, keyName) :
        LET r == Encrypt(keyrings, hit, keyName, plaintext, nonce)
            rec == [keyName |-> keyName,
                    version |-> keyrings[hit].CryptoKeys[keyName].PrimaryVersion,
                    plaintext |-> plaintext,
                    ct |-> r.val.ct]
        IN  /\ keyrings' = r.ks
            /\ issued' = IF r.err = "" THEN issued \cup {rec} ELSE issued
            /\ Cardinality(issued') <= S.issue
            /\ ret' = Ret("Encrypt", <<keyName, plaintext>>, "", r.err, r.val)
            /\ UNCHANGED <<pc, cur, iamClient, clock>>

\* what callers hand to Decrypt: ciphertexts they were given, intact or corrupted
DecryptInputs ==
    UNION {{i.ct, FlipNonce(i.ct), Truncate(i.ct, NonceSize - 1)} : i \in issued}

\* the orders in which Decrypt's range can visit the versions of the key it found
VisitOrders(ks, hit, keyName) ==
    IF hit = NoHit THEN {<<>>} ELSE Orders(DOMAIN ks[hit].CryptoKeys[keyName].Versions)

CallDecrypt(S) ==
    \E keyName \in KeyNames(S), ct \in DecryptInputs :
      \E hit \in KeyHits(keyrings, keyName) :
        \E order \in VisitOrders(keyrings, hit, keyName) :
          LET r == Decrypt(keyrings, hit, keyName, ct, order)
          IN  /\ keyrings' = r.ks
              /\ ret' = Ret("Decrypt", <<keyName, ct>>, "", r.err, r.val)
              /\ UNCHANGED <<pc, cur, iamClient, clock, issued>>

CallCreateCryptoKeyVersion(S) ==
    \E keyName \in KeyNames(S) : \E hit \in KeyHits(keyrings, keyName) :
        LET r == CreateCryptoKeyVersion(keyrings, hit, keyName, clock, FreshKey)
        IN  /\ Tick(S, r)
            /\ keyrings' = r.ks
            /\ ret' = Ret("CreateCryptoKeyVersion", <<keyName>>, "", r.err, r.val)
            /\ UNCHANGED <<pc, cur, iamClient, issued>>

CallUpdateCryptoKeyPrimaryVersion(S) ==
    \E keyName \in KeyNames(S), versionName \in VersionNames(S) :
      \E hit \in KeyHits(keyrings, keyName) :
        LET r == UpdateCryptoKeyPrimaryVersion(keyrings, hit, keyName, versionName)
        IN  /\ keyrings' = r.ks
            /\ ret' = Ret("UpdateCryptoKeyPrimaryVersion", <<keyName, versionName>>, "",
                          r.err, r.val)
            /\ UNCHANGED <<pc, cur, iamClient, clock, issued>>

CallUpdateCryptoKeyVersion(S) ==
    \E versionName \in VersionNames(S), state \in S.states :
      \E hit \in VersionHits(keyrings, versionName) :
        LET r == UpdateCryptoKeyVersion(keyrings, hit, versionName, state)
        IN  /\ keyrings' = r.ks
            /\ ret' = Ret("UpdateCryptoKeyVersion", <<versionName, state>>, "", r.err, r.val)
            /\ UNCHANGED <<pc, cur, iamClient, clock, issued>>

CallDestroyCryptoKeyVersion(S) ==
    \E versionName \in VersionNames(S) :
      \E hit \in VersionHits(keyrings, versionName) :
        LET r == DestroyCryptoKeyVersion(keyrings, hit, versionName)
        IN  /\ keyrings' = r.ks
            /\ ret' = Ret("DestroyCryptoKeyVersion", <<versionName>>, "", r.err, r.val)
            /\ UNCHANGED <<pc, cur, iamClient, clock, issued>>

CallClear ==
    LET r == Clear(keyrings)
    IN  /\ keyrings' = r.ks
        /\ ret' = Ret("Clear", <<>>, "", r.err, r.val)
        /\ UNCHANGED <<pc, cur, iamClient, clock, issued>>

RpcCreateKeyRing(S) ==
    \E parent \in S.parents \cup {""}, keyRingId \in S.keyRingIds \cup {""},
       iamAnswer \in AnswersFor(iamClient) :
        LET r == ServerCreateKeyRing(keyrings, iamClient, iamAnswer, parent, keyRingId, clock)
        IN  /\ Tick(S, r)
            /\ keyrings' = r.ks
            /\ ret' = Ret("Server.CreateKeyRing", <<parent, keyRingId, iamAnswer>>, r.code, r.err, r.val)
            /\ UNCHANGED <<pc, cur, iamClient, issued>>

RpcCreateCryptoKey(S) ==
    \E parent \in S.rings \cup {""}, cryptoKeyId \in S.keyIds \cup {""},
       cryptoKey \in CryptoKeyInputs, iamAnswer \in AnswersFor(iamClient) :
        LET r == ServerCreateCryptoKey(keyrings, iamClient, iamAnswer, parent, cryptoKeyId,
                                       cryptoKey, clock, FreshKey)
        IN  /\ Tick(S, r)
            /\ keyrings' = r.ks
            /\ ret' = Ret("Server.CreateCryptoKey",
                          <<parent, cryptoKeyId, cryptoKey, iamAnswer>>,
                          r.code, r.err, r.val)
            /\ UNCHANGED <<pc, cur, iamClient, issued>>

RpcCreateCryptoKeyVersion(S) ==
    \E parent \in KeyNames(S) \cup {""}, iamAnswer \in AnswersFor(iamClient) :
      \E hit \in KeyHits(keyrings, parent) :
        LET r == ServerCreateCryptoKeyVersion(keyrings, iamClient, iamAnswer, hit, parent,
                                              clock, FreshKey)
        IN  /\ Tick(S, r)
            /\ keyrings' = r.ks
            /\ ret' = Ret("Server.CreateCryptoKeyVersion", <<parent, iamAnswer>>,
                          r.code, r.err, r.val)
            /\ UNCHANGED <<pc, cur, iamClient, issued>>

\* the version ids callers write in a request: decimal strings
VersionIds(S) == {ToString(n) : n \in 1..(S.creates - 1)}

RpcUpdateCryptoKeyVersion(S) ==
    \E cryptoKeyVersion \in CryptoKeyVersionInputs(VersionNames(S), S.states),
       iamAnswer \in AnswersFor(iamClient) :
      \E hit \in VersionHits(keyrings, cryptoKeyVersion.Name) :
        LET r == ServerUpdateCryptoKeyVersion(keyrings, iamClient, iamAnswer, hit,
                                              cryptoKeyVersion)
        IN  /\ keyrings' = r.ks
            /\ ret' = Ret("Server.UpdateCryptoKeyVersion", <<cryptoKeyVersion, iamAnswer>>,
                          r.code, r.err, r.val)
            /\ UNCHANGED <<pc, cur, iamClient, clock, issued>>

RpcUpdateCryptoKeyPrimaryVersion(S) ==
    \E name \in KeyNames(S) \cup {""}, cryptoKeyVersionId \in VersionIds(S) \cup {""},
       iamAnswer \in AnswersFor(iamClient) :
      \E hit \in KeyHits(keyrings, name) :
        LET r == ServerUpdateCryptoKeyPrimaryVersion(keyrings, iamClient, iamAnswer, hit,
                                                     name, cryptoKeyVersionId)
        IN  /\ keyrings' = r.ks
            /\ ret' = Ret("Server.UpdateCryptoKeyPrimaryVersion",
                          <<name, cryptoKeyVersionId, iamAnswer>>, r.code, r.err, r.val)
            /\ UNCHANGED <<pc, cur, iamClient, clock, issued>>

RpcDestroyCryptoKeyVersion(S) ==
    \E name \in VersionNames(S) \cup {""}, iamAnswer \in AnswersFor(iamClient) :
      \E hit \in VersionHits(keyrings, name) :
        LET r == ServerDestroyCryptoKeyVersion(keyrings, iamClient, iamAnswer, hit, name)
        IN  /\ keyrings' = r.ks
            /\ ret' = Ret("Server.DestroyCryptoKeyVersion", <<name, iamAnswer>>,
                          r.code, r.err, r.val)
            /\ UNCHANGED <<pc, cur, iamClient, clock, issued>>

----------------------------------------------------------------------------
(* Spec: the Storage API used directly (NewStorage, no server in front):   *)
(* the hierarchy operations on the keys of one key ring                    *)

InitStorage == Init /\ iamClient = "nil"

HierScope == Scope(OneRing, KeyIds, States, MaxCreates, 0)

Next ==
    \/ CallCreateKeyRing(HierScope)
    \/ CallCreateCryptoKey(HierScope)
    \/ CallGetCryptoKey(HierScope)
    \/ CallCreateCryptoKeyVersion(HierScope)
    \/ CallUpdateCryptoKeyPrimaryVersion(HierScope)
    \/ CallUpdateCryptoKeyVersion(HierScope)
    \/ CallDestroyCryptoKeyVersion(HierScope)
    \/ CallClear

Spec == InitStorage /\ [][Next]_vars

\* the key rings that hold a crypto key of this name (none if no such key is stored)
Holders(keyName) == KeyHits(keyrings, keyName) \ {NoHit}

\* the <<key ring, crypto key>> pairs that hold a version of this name
Locations(versionName) ==
    {h \in UNION {{<<r, k>> : k \in DOMAIN keyrings[r].CryptoKeys} : r \in DOMAIN keyrings} :
        versionName \in DOMAIN keyrings[h[1]].CryptoKeys[h[2]].Versions}

\* the <<key ring, crypto key, version>> names of every version stored in ks
StoredVersions(ks) ==
    UNION {UNION {{<<r, k, v>> : v \in DOMAIN ks[r].CryptoKeys[k].Versions}
                  : k \in DOMAIN ks[r].CryptoKeys}
           : r \in DOMAIN ks}
StateOf(ks, x) == ks[x[1]].CryptoKeys[x[2]].Versions[x[3]].State

\* version v of the stored key ck exists and is in state ENABLED
EnabledIn(ck, v) == v \in DOMAIN ck.Versions /\ ck.Versions[v].State = "ENABLED"

\* Decrypt(keyName, ct) returns exactly the plaintext, in whatever order the versions
\* of the key are visited
DecryptsTo(hit, keyName, ct, plaintext) ==
    \A order \in VisitOrders(keyrings, hit, keyName) :
        LET d == Decrypt(keyrings, hit, keyName, ct, order)
        IN  d.err = "" /\ d.val = [kind |-> "bytes", bytes |-> plaintext]

\* Decrypt(keyName, ct) fails, in whatever order the versions of the key are visited
DecryptFails(hit, keyName, ct) ==
    \A order \in VisitOrders(keyrings, hit, keyName) :
        LET d == Decrypt(keyrings, hit, keyName, ct, order)
        IN  d.err # "" /\ d.val = Nil

\* the crypto keys stored now, each as <<key ring name, crypto key name>>
StoredKeys ==
    UNION {{<<r, k>> : k \in DOMAIN keyrings[r].CryptoKeys} : r \in DOMAIN keyrings}

\* C8 - CreateCryptoKey's first version.  Right after a successful
\* CreateCryptoKey(keyring, id) the stored key has exactly one version, named
\* <keyName>/cryptoKeyVersions/1, in state ENABLED, and its primary pointer names it;
\* the returned key, and GetCryptoKey on it, report that version as the ENABLED primary.
C8_FirstVersion ==
    (ret.op = "CreateCryptoKey" /\ ret.err = "") =>
        LET keyName == CryptoKeyName(ret.args[1], ret.args[2])
            first == VersionName(keyName, 1)
            ck == keyrings[ret.args[1]].CryptoKeys[keyName]
        IN  /\ DOMAIN ck.Versions = {first}
            /\ ck.Versions[first].Name = keyName \o "/cryptoKeyVersions/1"
            /\ ck.Versions[first].State = "ENABLED"
            /\ ck.PrimaryVersion = first
            /\ ret.val.Name = keyName
            /\ ret.val.Primary.Name = first
            /\ ret.val.Primary.State = "ENABLED"
            /\ GetCryptoKey(keyrings, ret.args[1], keyName).val.Primary = ret.val.Primary

\* C8 witness: a second crypto key was just created in a key ring that held one.
C8_Witness ==
    /\ ret.op = "CreateCryptoKey" /\ ret.err = ""
    /\ Cardinality(DOMAIN keyrings[ret.args[1]].CryptoKeys) = 2

\* C9 - Primary pointer.  In every reachable state every stored crypto key has at
\* least one version, its primary pointer names a version of its own version set and
\* of no other key's, and GetCryptoKey on it finds that version.
C9_PrimaryExists ==
    \A rk \in StoredKeys :
        LET ck == keyrings[rk[1]].CryptoKeys[rk[2]]
        IN  /\ DOMAIN ck.Versions # {}
            /\ ck.PrimaryVersion \in DOMAIN ck.Versions
            /\ \A other \in StoredKeys \ {rk} :
                 ck.PrimaryVersion
                     \notin DOMAIN keyrings[other[1]].CryptoKeys[other[2]].Versions
            /\ GetCryptoKey(keyrings, rk[1], rk[2]).val.Primary.Name = ck.PrimaryVersion

\* C9 witness: UpdateCryptoKeyPrimaryVersion was just refused a version that exists,
\* but in another key.
C9_Witness ==
    /\ ret.op = "UpdateCryptoKeyPrimaryVersion"
    /\ ret.err = "crypto key version not found: " \o ret.args[2]
    /\ \E rk \in StoredKeys :
         /\ rk[2] # ret.args[1]
         /\ ret.args[2] \in DOMAIN keyrings[rk[1]].CryptoKeys[rk[2]].Versions
    /\ \E rk \in StoredKeys : rk[2] = ret.args[1]

----------------------------------------------------------------------------
(* SpecCrypt: encryption and decryption under the versions of one key      *)

\* the states asked of UpdateCryptoKeyVersion here; DESTROY_SCHEDULED is reached through
\* DestroyCryptoKeyVersion
CryptStates == {"ENABLED", "DISABLED", "DESTROYED"}
CryptScope == Scope(OneRing, OneKeyId, CryptStates, MaxCryptCreates, MaxIssued)

NextCrypt ==
    \/ CallCreateKeyRing(CryptScope)
    \/ CallCreateCryptoKey(CryptScope)
    \/ CallCreateCryptoKeyVersion(CryptScope)
    \/ CallUpdateCryptoKeyPrimaryVersion(CryptScope)
    \/ CallUpdateCryptoKeyVersion(CryptScope)
    \/ CallDestroyCryptoKeyVersion(CryptScope)
    \/ CallEncrypt(CryptScope)
    \/ CallDecrypt(CryptScope)

SpecCrypt == InitStorage /\ [][NextCrypt]_vars

\* C1 - Round trip.  In every reachable state, for every key whose primary version is
\* ENABLED, every plaintext p and every nonce, Encrypt(key, p) succeeds and Decrypt of
\* the ciphertext it returns gives back exactly p; and every ciphertext handed out
\* earlier still decrypts to its plaintext whenever the version that produced it is
\* ENABLED now, whatever happened to the key in between.
C1_RoundTrip ==
    /\ \A keyName \in KeyNames(CryptScope), plaintext \in Plaintexts, nonce \in Nonces :
         \A hit \in Holders(keyName) :
           LET ck == keyrings[hit].CryptoKeys[keyName]
               e == Encrypt(keyrings, hit, keyName, plaintext, nonce)
           IN  EnabledIn(ck, ck.PrimaryVersion) =>
                 /\ e.err = ""
                 /\ DecryptsTo(hit, keyName, e.val.ct, plaintext)
    /\ \A i \in issued : \A hit \in Holders(i.keyName) :
         EnabledIn(keyrings[hit].CryptoKeys[i.keyName], i.version) =>
             DecryptsTo(hit, i.keyName, i.ct, i.plaintext)
    /\ (ret.op = "Decrypt" /\ ret.err = "") =>
         \E i \in issued : ret.args = <<i.keyName, i.ct>>
                           /\ ret.val = [kind |-> "bytes", bytes |-> i.plaintext]

\* C1 witness: a Decrypt call returned "hello" for a ciphertext handed out earlier
\* while the key had two ENABLED versions to try.
C1_Witness ==
    /\ ret.op = "Decrypt" /\ ret.err = ""
    /\ ret.val = [kind |-> "bytes", bytes |-> "hello"]
    /\ \E i \in issued : \E hit \in Holders(i.keyName) :
         /\ ret.args = <<i.keyName, i.ct>>
         /\ Cardinality({v \in DOMAIN keyrings[hit].CryptoKeys[i.keyName].Versions :
                            EnabledIn(keyrings[hit].CryptoKeys[i.keyName], v)}) >= 2

\* C2 - Encrypt gating.  In every reachable state and for every stored key, plaintext
\* and nonce: if the key's primary version is ENABLED, Encrypt succeeds and the
\* ciphertext opens under the primary version's key material and under that of no other
\* version of the key; if the primary is in any other state, Encrypt fails and returns
\* no ciphertext.  Every Encrypt call made obeys the same rule.
C2_EncryptGating ==
    /\ \A keyName \in KeyNames(CryptScope), plaintext \in Plaintexts, nonce \in Nonces :
         \A hit \in Holders(keyName) :
           LET ck == keyrings[hit].CryptoKeys[keyName]
               e == Encrypt(keyrings, hit, keyName, plaintext, nonce)
           IN  IF EnabledIn(ck, ck.PrimaryVersion)
               THEN /\ e.err = ""
                    /\ \A v \in DOMAIN ck.Versions :
                         decryptWithVersion(ck.Versions[v], e.val.ct).err = ""
                             <=> v = ck.PrimaryVersion
               ELSE e.err # "" /\ e.val = Nil
    /\ ret.op = "Encrypt" =>
         IF \E hit \in Holders(ret.args[1]) :
                LET ck == keyrings[hit].CryptoKeys[ret.args[1]]
                IN  EnabledIn(ck, ck.PrimaryVersion)
         THEN /\ ret.err = ""
              /\ \A hit \in Holders(ret.args[1]) :
                   decryptWithVersion(PrimaryOf(keyrings[hit].CryptoKeys[ret.args[1]]),
                                      ret.val.ct).val
                       = [kind |-> "bytes", bytes |-> ret.args[2]]
         ELSE ret.err # "" /\ ret.val = Nil

\* C2 witness: an Encrypt call failed because the primary version was not ENABLED,
\* although another version of the same key was.
C2_Witness ==
    /\ ret.op = "Encrypt" /\ ret.err = "primary version is not enabled"
    /\ \E hit \in Holders(ret.args[1]) :
         LET ck == keyrings[hit].CryptoKeys[ret.args[1]]
         IN  \E v \in DOMAIN ck.Versions : v # ck.PrimaryVersion /\ EnabledIn(ck, v)

\* the versions of the key that are ENABLED now and produced ct in an earlier Encrypt
EnabledProducers(hit, keyName, ct) ==
    {v \in DOMAIN keyrings[hit].CryptoKeys[keyName].Versions :
        /\ EnabledIn(keyrings[hit].CryptoKeys[keyName], v)
        /\ \E i \in issued : i.keyName = keyName /\ i.version = v /\ i.ct = ct}

\* C3 - Decrypt gating.  In every reachable state, for every stored key, every input
\* (a ciphertext handed out earlier, intact or corrupted) and every visiting order,
\* Decrypt succeeds exactly when a version of that key that is ENABLED now produced
\* the input; the primary pointer does not enter into it.  Every Decrypt call made
\* obeys the same rule.
C3_DecryptGating ==
    /\ \A keyName \in KeyNames(CryptScope), ct \in DecryptInputs :
         \A hit \in Holders(keyName) :
           \A order \in VisitOrders(keyrings, hit, keyName) :
             Decrypt(keyrings, hit, keyName, ct, order).err = ""
                 <=> EnabledProducers(hit, keyName, ct) # {}
    /\ ret.op = "Decrypt" =>
         (ret.err = "" <=> \E hit \in Holders(ret.args[1]) :
                              EnabledProducers(hit, ret.args[1], ret.args[2]) # {})

\* C3 witness: a Decrypt call succeeded through a version that is not the primary,
\* while the primary version itself was not ENABLED.
C3_Witness ==
    /\ ret.op = "Decrypt" /\ ret.err = ""
    /\ \E hit \in Holders(ret.args[1]) :
         LET ck == keyrings[hit].CryptoKeys[ret.args[1]]
         IN  /\ ~EnabledIn(ck, ck.PrimaryVersion)
             /\ ck.PrimaryVersion \notin EnabledProducers(hit, ret.args[1], ret.args[2])

\* C4 - Disabling removes decryptability.  In every reachable state, a ciphertext whose
\* producing version is not ENABLED now (set to DISABLED by UpdateCryptoKeyVersion, or
\* left in any other non-ENABLED state) fails to decrypt in every visiting order, also
\* when other versions of the key are ENABLED; a Decrypt call made on it failed.
C4_DisabledFails ==
    /\ \A i \in issued : \A hit \in Holders(i.keyName) :
         ~EnabledIn(keyrings[hit].CryptoKeys[i.keyName], i.version) =>
             DecryptFails(hit, i.keyName, i.ct)
    /\ ret.op = "Decrypt" =>
         \A i \in issued : \A hit \in Holders(i.keyName) :
           (/\ ret.args = <<i.keyName, i.ct>>
            /\ ~EnabledIn(keyrings[hit].CryptoKeys[i.keyName], i.version))
               => ret.err = "failed to decrypt with any key version"

\* C4 witness: a Decrypt call failed on an intact ciphertext whose producing version
\* is DISABLED while another version of the key is ENABLED.
C4_Witness ==
    /\ ret.op = "Decrypt" /\ ret.err # ""
    /\ \E i \in issued : \E hit \in Holders(i.keyName) :
         LET ck == keyrings[hit].CryptoKeys[i.keyName]
         IN  /\ ret.args = <<i.keyName, i.ct>>
             /\ ck.Versions[i.version].State = "DISABLED"
             /\ \E v \in DOMAIN ck.Versions : EnabledIn(ck, v)

\* C5 - as docs/FEATURES.md states it: a ciphertext whose producing version is DISABLED
\* or DESTROY_SCHEDULED now still decrypts to its plaintext.  Storage.Decrypt skips
\* every version that is not ENABLED, so this fails.
C5_DisabledStillDecrypts ==
    \A i \in issued : \A hit \in Holders(i.keyName) :
      LET ck == keyrings[hit].CryptoKeys[i.keyName]
      IN  ck.Versions[i.version].State \in {"DISABLED", "DESTROY_SCHEDULED"} =>
              DecryptsTo(hit, i.keyName, i.ct, i.plaintext)

\* C6 - Rotation persistence.  Every successful CreateCryptoKeyVersion leaves the
\* primary pointer alone and every successful UpdateCryptoKeyPrimaryVersion(key, v)
\* makes v the primary; right after either, every ciphertext handed out earlier whose
\* producing version is ENABLED decrypts to its original plaintext, and Encrypt on the
\* key seals under the (new) primary: its ciphertext opens with that version's key
\* material and decrypts to the plaintext given.
C6_Rotation ==
    [][ (ret'.op \in {"CreateCryptoKeyVersion", "UpdateCryptoKeyPrimaryVersion"}
         /\ ret'.err = "") =>
          \A hit \in KeyHits(keyrings', ret'.args[1]) \ {NoHit} :
            LET keyName == ret'.args[1]
                ck == keyrings'[hit].CryptoKeys[keyName]
            IN  /\ ck.PrimaryVersion = IF ret'.op = "UpdateCryptoKeyPrimaryVersion"
                                       THEN ret'.args[2]
                                       ELSE keyrings[hit].CryptoKeys[keyName].PrimaryVersion
                /\ \A i \in issued :
                     (i.keyName = keyName /\ EnabledIn(ck, i.version)) =>
                        \A order \in VisitOrders(keyrings', hit, keyName) :
                          Decrypt(keyrings', hit, keyName, i.ct, order).val
                              = [kind |-> "bytes", bytes |-> i.plaintext]
                /\ \A plaintext \in Plaintexts, nonce \in Nonces :
                     LET e == Encrypt(keyrings', hit, keyName, plaintext, nonce)
                     IN  e.err = "" =>
                           /\ decryptWithVersion(ck.Versions[ck.PrimaryVersion], e.val.ct).val
                                  = [kind |-> "bytes", bytes |-> plaintext]
                           /\ \A order \in VisitOrders(keyrings', hit, keyName) :
                                Decrypt(keyrings', hit, keyName, e.val.ct, order).val
                                    = [kind |-> "bytes", bytes |-> plaintext]
      ]_vars

\* C6 witness: the primary was just rotated to version 2 while a ciphertext produced
\* under version 1, still ENABLED, is in the callers' hands.
C6_Witness ==
    /\ ret.op = "UpdateCryptoKeyPrimaryVersion" /\ ret.err = ""
    /\ \E i \in issued : \E hit \in Holders(i.keyName) :
         LET ck == keyrings[hit].CryptoKeys[i.keyName]
         IN  /\ ret.args[1] = i.keyName
             /\ i.version = VersionName(i.keyName, 1)
             /\ ck.PrimaryVersion = VersionName(i.keyName, 2)
             /\ EnabledIn(ck, i.version)

----------------------------------------------------------------------------
(* SpecVersions: the versions of one key                                   *)

VersionScope == Scope(OneRing, OneKeyId, States, MaxVersionCreates, 0)

NextVersions ==
    \/ CallCreateKeyRing(VersionScope)
    \/ CallCreateCryptoKey(VersionScope)
    \/ CallGetCryptoKey(VersionScope)
    \/ CallCreateCryptoKeyVersion(VersionScope)
    \/ CallUpdateCryptoKeyPrimaryVersion(VersionScope)
    \/ CallUpdateCryptoKeyVersion(VersionScope)
    \/ CallDestroyCryptoKeyVersion(VersionScope)
    \/ CallClear

SpecVersions == InitStorage /\ [][NextVersions]_vars

\* the names a key gives to the version ids 1..n
IdsUpTo(keyName, n) == {VersionName(keyName, id) : id \in 1..n}

\* C7 - Version ids.  In every reachable state the versions of every stored key are
\* named by the ids 1..n, n >= 1, and the key's counter is n+1.  A successful
\* CreateCryptoKeyVersion on a key with n versions returns the id n+1, a name the key
\* did not hold, and adds only that version; every other call that leaves the key in
\* place (UpdateCryptoKeyVersion, DestroyCryptoKeyVersion, UpdateCryptoKeyPrimaryVersion,
\* whether it succeeds or not) leaves the key's version names and counter as they were,
\* so the k-th successful CreateCryptoKeyVersion returns id k+1.
C7_VersionIds ==
    /\ [](\A rk \in StoredKeys :
            LET ck == keyrings[rk[1]].CryptoKeys[rk[2]]
                n == Cardinality(DOMAIN ck.Versions)
            IN  /\ n >= 1
                /\ DOMAIN ck.Versions = IdsUpTo(rk[2], n)
                /\ \A v \in DOMAIN ck.Versions : ck.Versions[v].Name = v
                /\ ck.NextVersionID = n + 1)
    /\ [][ /\ (ret'.op = "CreateCryptoKeyVersion" /\ ret'.err = "") =>
                \A hit \in Holders(ret'.args[1]) :
                  LET before == keyrings[hit].CryptoKeys[ret'.args[1]]
                      after == keyrings'[hit].CryptoKeys[ret'.args[1]]
                      n == Cardinality(DOMAIN before.Versions)
                  IN  /\ ret'.val.Name = VersionName(ret'.args[1], n + 1)
                      /\ ret'.val.Name \notin DOMAIN before.Versions
                      /\ DOMAIN after.Versions = DOMAIN before.Versions \cup {ret'.val.Name}
                      /\ after.NextVersionID = before.NextVersionID + 1
           /\ ret'.op \in {"UpdateCryptoKeyVersion", "DestroyCryptoKeyVersion",
                           "UpdateCryptoKeyPrimaryVersion", "GetCryptoKey"} =>
                /\ StoredKeys' = StoredKeys
                /\ \A rk \in StoredKeys :
                     LET before == keyrings[rk[1]].CryptoKeys[rk[2]]
                         after == keyrings'[rk[1]].CryptoKeys[rk[2]]
                     IN  /\ DOMAIN after.Versions = DOMAIN before.Versions
                         /\ after.NextVersionID = before.NextVersionID
      ]_vars

\* C7 witness: CreateCryptoKeyVersion just returned id 3 on a key whose version 1 is
\* scheduled for destruction and whose version 2 is DISABLED.
C7_Witness ==
    /\ ret.op = "CreateCryptoKeyVersion" /\ ret.err = ""
    /\ ret.val.Name = VersionName(ret.args[1], 3)
    /\ \E hit \in Holders(ret.args[1]) :
         LET ck == keyrings[hit].CryptoKeys[ret.args[1]]
         IN  /\ ck.Versions[VersionName(ret.args[1], 1)].State = "DESTROY_SCHEDULED"
             /\ ck.Versions[VersionName(ret.args[1], 2)].State = "DISABLED"

----------------------------------------------------------------------------
(* SpecRpc: a server (NewServer) reached through its gRPC handlers only    *)

RpcScope == HandlerScope(Parents, KeyRingIds, RingNames, OneKeyId, States, MaxRpcCreates)

NextRpc ==
    \/ RpcCreateKeyRing(RpcScope)
    \/ RpcCreateCryptoKey(RpcScope)
    \/ RpcCreateCryptoKeyVersion(RpcScope)

SpecRpc == Init /\ [][NextRpc]_vars

\* C10 - CreateKeyRing.  A Server.CreateKeyRing call with a parent and an id, let
\* through by the permission check, answers OK with the new key ring when no key ring
\* of that name is stored, storing it empty and leaving every other key ring as it
\* was; when one is stored it answers AlreadyExists with no key ring and leaves the
\* whole hierarchy (that key ring's creation time, crypto keys and versions included)
\* unchanged.
C10_CreateKeyRing ==
    [][ ret'.op = "Server.CreateKeyRing" =>
          LET name == KeyRingName(ret'.args[1], ret'.args[2])
          IN  (/\ ret'.args[1] # "" /\ ret'.args[2] # ""
               /\ (iamClient = "nil" \/ ret'.args[3] = "allowed")) =>
                IF name \in DOMAIN keyrings
                THEN /\ ret'.code = "AlreadyExists"
                     /\ ret'.val = Nil
                     /\ keyrings' = keyrings
                ELSE /\ ret'.code = "OK"
                     /\ ret'.val = [kind |-> "KeyRing", Name |-> name, CreateTime |-> clock]
                     /\ DOMAIN keyrings' = DOMAIN keyrings \cup {name}
                     /\ keyrings'[name] =
                            [Name |-> name, CreateTime |-> clock, CryptoKeys |-> EmptyMap]
                     /\ \A other \in DOMAIN keyrings : keyrings'[other] = keyrings[other]
      ]_vars

\* C10 witness: a server with an IAM client just answered AlreadyExists for a key ring
\* that holds a crypto key with two versions.
C10_Witness ==
    /\ ret.op = "Server.CreateKeyRing" /\ ret.code = "AlreadyExists"
    /\ iamClient = "client"
    /\ \E k \in DOMAIN keyrings[KeyRingName(ret.args[1], ret.args[2])].CryptoKeys :
         Cardinality(DOMAIN keyrings[KeyRingName(ret.args[1], ret.args[2])]
                                .CryptoKeys[k].Versions) = 2

----------------------------------------------------------------------------
(* Claims about the versions of a key, checked under Spec; C12 is checked *)
(* under SpecSiblings, where the key has labels and a sibling in another ring *)

\* C12 - CreateCryptoKeyVersion.  A successful CreateCryptoKeyVersion adds exactly one
\* version to the key, named by the key's counter and in state ENABLED, and raises the
\* counter by one; the key's primary pointer, its existing versions (state and key
\* material), its labels and other fields, and every other key and key ring stay as
\* they were.
C12_CreateCryptoKeyVersion ==
    [][ (ret'.op = "CreateCryptoKeyVersion" /\ ret'.err = "") =>
          LET keyName == ret'.args[1]
          IN  \E r \in Holders(keyName) :
                LET old == keyrings[r].CryptoKeys[keyName]
                    new == keyrings'[r].CryptoKeys[keyName]
                    added == VersionName(keyName, old.NextVersionID)
                IN  /\ added \notin DOMAIN old.Versions
                    /\ DOMAIN new.Versions = DOMAIN old.Versions \cup {added}
                    /\ new.Versions[added].State = "ENABLED"
                    /\ new.NextVersionID = old.NextVersionID + 1
                    /\ new.PrimaryVersion = old.PrimaryVersion
                    /\ new.Labels = old.Labels
                    /\ \A v \in DOMAIN old.Versions : new.Versions[v] = old.Versions[v]
                    /\ new = [old EXCEPT !.Versions = new.Versions,
                                         !.NextVersionID = new.NextVersionID]
                    /\ keyrings' = [keyrings EXCEPT ![r].CryptoKeys[keyName] = new]
      ]_vars

\* C12 witness: a version was just added to a key that carries labels and whose
\* first version, still the primary, is DISABLED, while another key ring holds
\* another key, labelled too, whose only version is DISABLED.
C12_Witness ==
    /\ ret.op = "CreateCryptoKeyVersion" /\ ret.err = ""
    /\ \E r \in Holders(ret.args[1]) :
         LET ck == keyrings[r].CryptoKeys[ret.args[1]]
         IN  /\ ret.val.Name \in DOMAIN ck.Versions
             /\ ck.PrimaryVersion = VersionName(ret.args[1], 1)
             /\ ck.PrimaryVersion # ret.val.Name
             /\ ck.Versions[ck.PrimaryVersion].State = "DISABLED"
             /\ ~ck.Labels.isNil /\ ck.Labels.m # {}
             /\ \E q \in DOMAIN keyrings \ {r} : \E k \in DOMAIN keyrings[q].CryptoKeys :
                  /\ k # ret.args[1]
                  /\ ~keyrings[q].CryptoKeys[k].Labels.isNil
                  /\ \A v \in DOMAIN keyrings[q].CryptoKeys[k].Versions :
                        keyrings[q].CryptoKeys[k].Versions[v].State = "DISABLED"

\* C16 - DESTROYED is terminal.  Once a stored version is in state DESTROYED, no
\* operation changes that version's state.  (UpdateCryptoKeyVersion does.)
C16_DestroyedIsTerminal ==
    [][ \A x \in StoredVersions(keyrings) \cap StoredVersions(keyrings') :
            StateOf(keyrings, x) = "DESTROYED" => StateOf(keyrings', x) = "DESTROYED"
      ]_vars

\* C19 - No automatic progression.  The state of a stored version changes only in a
\* successful UpdateCryptoKeyVersion or DestroyCryptoKeyVersion call that names that
\* version; a version comes into being ENABLED, and a version is PENDING_GENERATION
\* only from an UpdateCryptoKeyVersion call that asks for it.  In particular a
\* DESTROY_SCHEDULED version stays so under every other operation.
C19_NoAutomaticProgression ==
    [][ /\ \A x \in StoredVersions(keyrings) \cap StoredVersions(keyrings') :
               StateOf(keyrings', x) # StateOf(keyrings, x) =>
                   /\ ret'.op \in {"UpdateCryptoKeyVersion", "DestroyCryptoKeyVersion"}
                   /\ ret'.err = ""
                   /\ ret'.args[1] = x[3]
                   /\ ret'.op = "DestroyCryptoKeyVersion" =>
                          StateOf(keyrings', x) = "DESTROY_SCHEDULED"
                   /\ ret'.op = "UpdateCryptoKeyVersion" =>
                          StateOf(keyrings', x) = ret'.args[2]
        /\ \A x \in StoredVersions(keyrings') \ StoredVersions(keyrings) :
               StateOf(keyrings', x) = "ENABLED"
      ]_vars

\* C19 witness: a version is still DESTROY_SCHEDULED after a successful
\* CreateCryptoKeyVersion on its key, a later operation.
C19_Witness ==
    /\ ret.op = "CreateCryptoKeyVersion" /\ ret.err = ""
    /\ \E x \in StoredVersions(keyrings) :
         /\ x[2] = ret.args[1]
         /\ StateOf(keyrings, x) = "DESTROY_SCHEDULED"

----------------------------------------------------------------------------
(* SpecRpcVersions: a server without IAM (the default configuration) whose *)
(* callers manage the versions of one key through the handlers             *)

\* successful creates in one run of SpecRpcVersions or SpecOddNames
MaxRpcVersionCreates == 3

OneParent == {"projects/p/locations/l1"}
RequestStates ==
    {"ENABLED", "DISABLED", "DESTROYED", "CRYPTO_KEY_VERSION_STATE_UNSPECIFIED"}

RpcVersionScope ==
    HandlerScope(OneParent, KeyRingIds, OneRing, OneKeyId, RequestStates,
                 MaxRpcVersionCreates)

NextRpcVersions ==
    \/ RpcCreateKeyRing(RpcVersionScope)
    \/ RpcCreateCryptoKey(RpcVersionScope)
    \/ RpcCreateCryptoKeyVersion(RpcVersionScope)
    \/ RpcUpdateCryptoKeyVersion(RpcVersionScope)
    \/ RpcUpdateCryptoKeyPrimaryVersion(RpcVersionScope)
    \/ RpcDestroyCryptoKeyVersion(RpcVersionScope)

SpecRpcVersions == InitStorage /\ [][NextRpcVersions]_vars

\* the stored key of this name has no version of this id
MissingVersion(keyName, cryptoKeyVersionId) ==
    /\ Holders(keyName) # {}
    /\ \A r \in Holders(keyName) :
         RequestedVersionName(keyName, cryptoKeyVersionId)
             \notin DOMAIN keyrings[r].CryptoKeys[keyName].Versions

\* C14 (as stated) - UpdateCryptoKeyPrimaryVersion on a missing version.  A
\* Server.UpdateCryptoKeyPrimaryVersion call naming a version id that the stored key
\* does not have answers FailedPrecondition and leaves the primary pointer unchanged.
C14_MissingVersionFailedPrecondition ==
    [][ (/\ ret'.op = "Server.UpdateCryptoKeyPrimaryVersion"
         /\ ret'.args[1] # "" /\ ret'.args[2] # ""
         /\ MissingVersion(ret'.args[1], ret'.args[2])) =>
          /\ ret'.code = "FailedPrecondition"
          /\ \A r \in Holders(ret'.args[1]) :
               keyrings'[r].CryptoKeys[ret'.args[1]].PrimaryVersion
                   = keyrings[r].CryptoKeys[ret'.args[1]].PrimaryVersion
      ]_vars

\* C14 - UpdateCryptoKeyPrimaryVersion on a missing version.  A
\* Server.UpdateCryptoKeyPrimaryVersion call naming a version id that the stored key
\* does not have answers NotFound and leaves the primary pointer (and the whole
\* hierarchy) unchanged.
C14_MissingVersionNotFound ==
    [][ (/\ ret'.op = "Server.UpdateCryptoKeyPrimaryVersion"
         /\ ret'.args[1] # "" /\ ret'.args[2] # ""
         /\ MissingVersion(ret'.args[1], ret'.args[2])) =>
          /\ ret'.code = "NotFound"
          /\ ret'.val = Nil
          /\ \A r \in Holders(ret'.args[1]) :
               keyrings'[r].CryptoKeys[ret'.args[1]].PrimaryVersion
                   = keyrings[r].CryptoKeys[ret'.args[1]].PrimaryVersion
          /\ keyrings' = keyrings
      ]_vars

\* C14 witness: the call just answered NotFound for version id 2 of a stored key
\* that has only version 1, its primary.
C14_Witness ==
    /\ ret.op = "Server.UpdateCryptoKeyPrimaryVersion" /\ ret.code = "NotFound"
    /\ ret.args[2] = "2"
    /\ MissingVersion(ret.args[1], ret.args[2])
    /\ \A r \in Holders(ret.args[1]) :
         keyrings[r].CryptoKeys[ret.args[1]].PrimaryVersion = VersionName(ret.args[1], 1)

\* C18 - UpdateCryptoKeyVersion.  A Server.UpdateCryptoKeyVersion call with a version
\* name and a state answers NotFound, changing nothing, exactly when no version of
\* that name is stored; otherwise it answers OK with the version in the requested
\* state, whatever state the version was in, and changes nothing in the hierarchy
\* but that version's state.
C18_UpdateCryptoKeyVersion ==
    [][ (/\ ret'.op = "Server.UpdateCryptoKeyVersion"
         /\ ~ret'.args[1].isNil /\ ret'.args[1].Name # ""
         /\ ret'.args[1].State # "CRYPTO_KEY_VERSION_STATE_UNSPECIFIED") =>
          LET versionName == ret'.args[1].Name
              state == ret'.args[1].State
          IN  /\ ret'.code = "NotFound" <=> Locations(versionName) = {}
              /\ ret'.code \in {"NotFound", "OK"}
              /\ ret'.code = "NotFound" => keyrings' = keyrings /\ ret'.val = Nil
              /\ \A h \in Locations(versionName) :
                    /\ keyrings' = [keyrings EXCEPT
                           ![h[1]].CryptoKeys[h[2]].Versions[versionName].State = state]
                    /\ ret'.val.Name = versionName /\ ret'.val.State = state
      ]_vars

\* C18 witness: the call just put a version into state ENABLED while the other
\* version of its key, the primary, stays DESTROYED.
C18_Witness ==
    /\ ret.op = "Server.UpdateCryptoKeyVersion" /\ ret.code = "OK"
    /\ ret.args[1].State = "ENABLED"
    /\ \E x \in StoredVersions(keyrings), y \in StoredVersions(keyrings) :
         /\ x[3] = ret.args[1].Name /\ StateOf(keyrings, x) = "ENABLED"
         /\ y[2] = x[2] /\ y[3] # x[3] /\ StateOf(keyrings, y) = "DESTROYED"
         /\ keyrings[y[1]].CryptoKeys[y[2]].PrimaryVersion = y[3]

----------------------------------------------------------------------------
(* SpecOddNames: the same server and handlers, with callers whose key ring *)
(* id and key id contain words that also occur in Storage's error messages *)
(* (the handlers accept any non-empty id)                                  *)

OddKeyRingIds == {"already exists"}
OddRings == {KeyRingName(p, r) : p \in OneParent, r \in OddKeyRingIds}
OddKeyIds == {"not found"}

OddScope ==
    HandlerScope(OneParent, OddKeyRingIds, OddRings, OddKeyIds, RequestStates,
                 MaxRpcVersionCreates)

NextOddNames ==
    \/ RpcCreateKeyRing(OddScope)
    \/ RpcCreateCryptoKey(OddScope)
    \/ RpcCreateCryptoKeyVersion(OddScope)
    \/ RpcUpdateCryptoKeyVersion(OddScope)
    \/ RpcUpdateCryptoKeyPrimaryVersion(OddScope)
    \/ RpcDestroyCryptoKeyVersion(OddScope)

SpecOddNames == InitStorage /\ [][NextOddNames]_vars

\* C11 - CreateCryptoKey errors.  A Server.CreateCryptoKey call with a parent, an id
\* and a crypto key answers NotFound when no key ring of the parent's name is stored,
\* and AlreadyExists when that key ring holds a key of that id; in both cases the
\* hierarchy is unchanged.  (The code answers AlreadyExists for an absent key ring
\* whose name contains "already exists".)
C11_CreateCryptoKeyErrors ==
    [][ (/\ ret'.op = "Server.CreateCryptoKey"
         /\ ret'.args[1] # "" /\ ret'.args[2] # "" /\ ~ret'.args[3].isNil) =>
          LET parent == ret'.args[1]
              keyName == CryptoKeyName(parent, ret'.args[2])
          IN  /\ parent \notin DOMAIN keyrings =>
                    ret'.code = "NotFound" /\ keyrings' = keyrings
              /\ (parent \in DOMAIN keyrings
                    /\ keyName \in DOMAIN keyrings[parent].CryptoKeys) =>
                    ret'.code = "AlreadyExists" /\ keyrings' = keyrings
      ]_vars

\* C13 - UpdateCryptoKeyPrimaryVersion on an existing version.  A
\* Server.UpdateCryptoKeyPrimaryVersion call that names a stored version of a stored
\* key answers FailedPrecondition and leaves the hierarchy unchanged when the version
\* is not ENABLED; when it is ENABLED the call answers OK and changes the key's
\* primary pointer to that version and nothing else.  (The code answers NotFound for
\* a version that is not ENABLED when the key's name contains "not found".)
C13_PrimaryOfExistingVersion ==
    [][ (/\ ret'.op = "Server.UpdateCryptoKeyPrimaryVersion"
         /\ ret'.args[1] # "" /\ ret'.args[2] # "") =>
          LET keyName == ret'.args[1]
              versionName == RequestedVersionName(keyName, ret'.args[2])
          IN  \A r \in Holders(keyName) :
                LET ck == keyrings[r].CryptoKeys[keyName]
                IN  versionName \in DOMAIN ck.Versions =>
                      IF ck.Versions[versionName].State # "ENABLED"
                      THEN ret'.code = "FailedPrecondition" /\ keyrings' = keyrings
                      ELSE /\ ret'.code = "OK"
                           /\ keyrings' = [keyrings EXCEPT
                                  ![r].CryptoKeys[keyName].PrimaryVersion = versionName]
      ]_vars

\* C15 - Destroy guard.  A Server.DestroyCryptoKeyVersion call on a stored version
\* that is neither DESTROY_SCHEDULED nor DESTROYED answers OK and sets that version's
\* state to DESTROY_SCHEDULED; on a version already DESTROY_SCHEDULED or DESTROYED it
\* answers FailedPrecondition and leaves the state unchanged, so the second of two
\* calls in a row fails.  (The code answers NotFound on the second call when the
\* version's name contains "not found".)
C15_DestroyGuard ==
    [][ (ret'.op = "Server.DestroyCryptoKeyVersion" /\ ret'.args[1] # "") =>
          LET versionName == ret'.args[1]
          IN  \A h \in Locations(versionName) :
                LET old == keyrings[h[1]].CryptoKeys[h[2]].Versions[versionName]
                    new == keyrings'[h[1]].CryptoKeys[h[2]].Versions[versionName]
                IN  IF old.State \in {"DESTROY_SCHEDULED", "DESTROYED"}
                    THEN ret'.code = "FailedPrecondition" /\ new.State = old.State
                    ELSE ret'.code = "OK" /\ new.State = "DESTROY_SCHEDULED"
      ]_vars

\* the transitions of the documented lifecycle
LifecycleEdges ==
    {<<"PENDING_GENERATION", "ENABLED">>, <<"ENABLED", "DISABLED">>,
     <<"DISABLED", "ENABLED">>, <<"DISABLED", "DESTROY_SCHEDULED">>,
     <<"DESTROY_SCHEDULED", "DESTROYED">>}

\* C17 - Lifecycle edges.  Every change of a stored version's state follows an edge of
\* the documented lifecycle, and a Server.UpdateCryptoKeyVersion call asking for any
\* other change of a stored version's state answers FailedPrecondition and leaves the
\* state unchanged.  (The code sets whatever state is asked for.)
C17_LifecycleEdges ==
    [][ /\ \A x \in StoredVersions(keyrings) \cap StoredVersions(keyrings') :
               StateOf(keyrings', x) # StateOf(keyrings, x) =>
                   <<StateOf(keyrings, x), StateOf(keyrings', x)>> \in LifecycleEdges
        /\ (/\ ret'.op = "Server.UpdateCryptoKeyVersion"
            /\ ~ret'.args[1].isNil
            /\ ret'.args[1].State # "CRYPTO_KEY_VERSION_STATE_UNSPECIFIED") =>
               \A x \in StoredVersions(keyrings) :
                   (/\ x[3] = ret'.args[1].Name
                    /\ ret'.args[1].State # StateOf(keyrings, x)
                    /\ <<StateOf(keyrings, x), ret'.args[1].State>> \notin LifecycleEdges) =>
                       /\ ret'.code = "FailedPrecondition"
                       /\ StateOf(keyrings', x) = StateOf(keyrings, x)
      ]_vars

----------------------------------------------------------------------------
(* SpecLock: goroutines call Storage concurrently.  Every method starts    *)
(* with s.mu.Lock() or s.mu.RLock() and releases the lock when it returns  *)
(* (defer); s.mu is a sync.RWMutex: one writer or any number of readers,   *)
(* and RLock blocks while a writer holds the lock or has asked for it.     *)
(* pc[g] is "idle", "waitW" (in Lock, behind another writer), "drain" (in  *)
(* Lock, ahead of later readers, waiting for the readers inside to leave), *)
(* "write" / "wrote" (holding the lock for writing, before / after the     *)
(* method's body), "waitR" (in RLock, behind a writer), "read" / "hasRead" *)
(* (holding the lock for reading, before / after the body).                *)

\* successful creates in one run of SpecLock
MaxLockCreates == 3

\* the first statement of each Storage method, CreateCryptoKeyVersion taking the lock
\* for reading
LockModeVersionShared(op) ==
    CASE op \in {"CreateKeyRing", "CreateCryptoKey", "UpdateCryptoKeyPrimaryVersion",
                 "UpdateCryptoKeyVersion", "DestroyCryptoKeyVersion", "UpdateCryptoKey",
                 "Clear"} -> "Lock"
      [] op \in {"GetKeyRing", "ListKeyRings", "GetCryptoKey", "Encrypt", "Decrypt",
                 "ListCryptoKeys", "GetCryptoKeyVersion", "ListCryptoKeyVersions",
                 "CreateCryptoKeyVersion"} -> "RLock"

\* the first statement of each Storage method, the three creates taking the lock for
\* reading
LockModeCreatesShared(op) ==
    CASE op \in {"UpdateCryptoKeyPrimaryVersion", "UpdateCryptoKeyVersion",
                 "DestroyCryptoKeyVersion", "UpdateCryptoKey", "Clear"} -> "Lock"
      [] op \in {"GetKeyRing", "ListKeyRings", "GetCryptoKey", "Encrypt", "Decrypt",
                 "ListCryptoKeys", "GetCryptoKeyVersion", "ListCryptoKeyVersions",
                 "CreateKeyRing", "CreateCryptoKey", "CreateCryptoKeyVersion"} -> "RLock"

\* the first statement of each Storage method, ListCryptoKeyVersions taking the lock
\* for writing
LockModeListExclusive(op) ==
    CASE op \in {"CreateKeyRing", "CreateCryptoKey", "CreateCryptoKeyVersion",
                 "UpdateCryptoKeyPrimaryVersion", "UpdateCryptoKeyVersion",
                 "DestroyCryptoKeyVersion", "UpdateCryptoKey", "Clear",
                 "ListCryptoKeyVersions"} -> "Lock"
      [] op \in {"GetKeyRing", "ListKeyRings", "GetCryptoKey", "Encrypt", "Decrypt",
                 "ListCryptoKeys", "GetCryptoKeyVersion"} -> "RLock"

\* the first statement of each Storage method: s.mu.Lock() or s.mu.RLock(), taking the
\* lock for reading
LockModeClearShared(op) ==
    CASE op \in {"CreateKeyRing", "CreateCryptoKey", "CreateCryptoKeyVersion",
                 "UpdateCryptoKeyPrimaryVersion", "UpdateCryptoKeyVersion",
                 "DestroyCryptoKeyVersion", "UpdateCryptoKey"} -> "Lock"
      [] op \in {"GetKeyRing", "ListKeyRings", "GetCryptoKey", "Encrypt", "Decrypt",
                 "ListCryptoKeys", "GetCryptoKeyVersion", "ListCryptoKeyVersions",
                 "Clear"} -> "RLock"

\* the first statement of each Storage method: s.mu.Lock() or s.mu.RLock()
LockMode(op) ==
    CASE op \in {"CreateKeyRing", "CreateCryptoKey", "CreateCryptoKeyVersion",
                 "UpdateCryptoKeyPrimaryVersion", "UpdateCryptoKeyVersion",
                 "DestroyCryptoKeyVersion", "UpdateCryptoKey", "Clear"} -> "Lock"
      [] op \in {"GetKeyRing", "ListKeyRings", "GetCryptoKey", "Encrypt", "Decrypt",
                 "ListCryptoKeys", "GetCryptoKeyVersion", "ListCryptoKeyVersions"} -> "RLock"

\* the labels a caller hands to UpdateCryptoKey: a nil map, or team=a
LabelChoices == {"nil", "team=a"}
LabelArg(choice) ==
    IF choice = "nil" THEN NilLabels ELSE [isNil |-> FALSE, m |-> {<<"team", "a">>}]

\* the calls the goroutines make
Call(op, args) == [op |-> op, args |-> args]
\* what the callers of a lock-level specification do: the methods they call (ops), the
\* methods whose body is followed write by write (stepwise), and their arguments
LockScopeOf(ops, stepwise, parents, rings, keyIds, states, creates) ==
    [ops |-> ops, stepwise |-> stepwise, parents |-> parents, rings |-> rings,
     keyIds |-> keyIds, states |-> states, creates |-> creates]
AllCalls(S) ==
    {Call("Clear", <<>>)}
        \cup {Call("CreateKeyRing", <<r>>) : r \in S.rings}
        \cup {Call("CreateCryptoKey", <<r, k>>) : r \in S.rings, k \in S.keyIds}
        \cup {Call(op, <<k>>) : op \in {"GetCryptoKey", "CreateCryptoKeyVersion"},
                                k \in KeyNames(S)}
        \cup {Call("UpdateCryptoKey", <<k, l>>) : k \in KeyNames(S), l \in LabelChoices}
        \cup {Call("UpdateCryptoKeyPrimaryVersion", <<k, v>>) :
                  k \in KeyNames(S), v \in VersionNames(S)}
        \cup {Call("UpdateCryptoKeyVersion", <<v, st>>) :
                  v \in VersionNames(S), st \in S.states}
        \cup {Call("DestroyCryptoKeyVersion", <<v>>) : v \in VersionNames(S)}
        \cup {Call(op, <<r>>) : op \in {"GetKeyRing", "ListCryptoKeys"}, r \in S.rings}
        \cup {Call("ListKeyRings", <<p>>) : p \in S.parents}
        \cup {Call("ListCryptoKeyVersions", <<k>>) : k \in KeyNames(S)}
        \cup {Call("GetCryptoKeyVersion", <<v>>) : v \in VersionNames(S)}
LockCalls(S) == {call \in AllCalls(S) : call.op \in S.ops}

\* The goroutines of TestConcurrentAccess: each encrypts a plaintext once and then
\* decrypts the ciphertext it was given.  rand.Reader gives each its own nonce.
WorkerNonce(g) == IF g = "g1" THEN 1 ELSE 2
OwnCiphertexts(g) == {i \in issued : i.ct.nonce = WorkerNonce(g)}
EncryptCalls(S, g) ==
    IF "Encrypt" \in S.ops /\ OwnCiphertexts(g) = {}
    THEN {Call("Encrypt", <<k, plaintext, WorkerNonce(g)>>) :
              k \in KeyNames(S), plaintext \in Plaintexts}
    ELSE {}
DecryptCalls(S, g) ==
    IF "Decrypt" \in S.ops
    THEN {Call("Decrypt", <<i.keyName, i.ct>>) : i \in OwnCiphertexts(g)}
    ELSE {}

\* where the method's lookup loop can stop
HitsFor(ks, call) ==
    CASE call.op \in {"GetCryptoKey", "CreateCryptoKeyVersion", "UpdateCryptoKey",
                      "UpdateCryptoKeyPrimaryVersion", "ListCryptoKeyVersions",
                      "Encrypt", "Decrypt"} -> KeyHits(ks, call.args[1])
      [] call.op \in {"UpdateCryptoKeyVersion", "DestroyCryptoKeyVersion",
                      "GetCryptoKeyVersion"} -> VersionHits(ks, call.args[1])
      [] OTHER -> {NoHit}

\* the orders in which the method's range over a map can visit it
OrdersFor(ks, call, hit) ==
    CASE call.op = "ListKeyRings" -> Orders(DOMAIN ks)
      [] call.op = "ListCryptoKeys" ->
             IF call.args[1] \in DOMAIN ks
             THEN Orders(DOMAIN ks[call.args[1]].CryptoKeys) ELSE {<<>>}
      [] call.op \in {"ListCryptoKeyVersions", "Decrypt"} ->
             VisitOrders(ks, hit, call.args[1])
      [] OTHER -> {<<>>}

\* the body of the method, between taking the lock and returning
Exec(ks, call, hit, order, now, symmetricKey) ==
    CASE call.op = "CreateKeyRing" -> CreateKeyRing(ks, call.args[1], now)
      [] call.op = "CreateCryptoKey" ->
             CreateCryptoKey(ks, call.args[1], call.args[2], "ENCRYPT_DECRYPT",
                             NilTemplate, NilLabels, now, symmetricKey)
      [] call.op = "GetCryptoKey" -> GetCryptoKey(ks, hit, call.args[1])
      [] call.op = "CreateCryptoKeyVersion" ->
             CreateCryptoKeyVersion(ks, hit, call.args[1], now, symmetricKey)
      [] call.op = "UpdateCryptoKey" ->
             UpdateCryptoKey(ks, hit, call.args[1], LabelArg(call.args[2]))
      [] call.op = "UpdateCryptoKeyPrimaryVersion" ->
             UpdateCryptoKeyPrimaryVersion(ks, hit, call.args[1], call.args[2])
      [] call.op = "UpdateCryptoKeyVersion" ->
             UpdateCryptoKeyVersion(ks, hit, call.args[1], call.args[2])
      [] call.op = "DestroyCryptoKeyVersion" ->
             DestroyCryptoKeyVersion(ks, hit, call.args[1])
      [] call.op = "Clear" -> Clear(ks)
      [] call.op = "GetKeyRing" -> GetKeyRing(ks, call.args[1])
      [] call.op = "ListKeyRings" -> ListKeyRings(ks, call.args[1], order)
      [] call.op = "ListCryptoKeys" -> ListCryptoKeys(ks, call.args[1], order)
      [] call.op = "GetCryptoKeyVersion" -> GetCryptoKeyVersion(ks, hit, call.args[1])
      [] call.op = "ListCryptoKeyVersions" ->
             ListCryptoKeyVersions(ks, hit, call.args[1], order)
      [] call.op = "Encrypt" -> Encrypt(ks, hit, call.args[1], call.args[2], call.args[3])
      [] call.op = "Decrypt" -> Decrypt(ks, hit, call.args[1], call.args[2], order)

\* the methods that read the clock (and the random source) when they succeed
CreatingOps == {"CreateKeyRing", "CreateCryptoKey", "CreateCryptoKeyVersion"}

\* the goroutines between rw.Lock's claim on the lock and Unlock
Writers == {g \in Goroutines : pc[g] \in {"drain", "write", "midWrite", "wrote"}}
\* the goroutines between RLock's return and RUnlock
Readers == {g \in Goroutines : pc[g] \in {"read", "midRead", "hasRead"}}

\* the creates under way; a create is begun only while the clock, after them, is
\* within the bound of the run
Creating == {g \in Goroutines : cur[g].op \in CreatingOps}
MayCall(S, call) ==
    call.op \in CreatingOps => clock + Cardinality(Creating) <= S.creates

\* g calls a method whose first statement is s.mu.Lock()
CallLock(S, g) ==
    /\ pc[g] = "idle"
    /\ \E call \in LockCalls(S) :
         /\ LockMode(call.op) = "Lock"
         /\ MayCall(S, call)
         /\ cur' = [cur EXCEPT ![g] = call]
    /\ pc' = [pc EXCEPT ![g] = IF Writers # {} THEN "waitW"
                               ELSE IF Readers # {} THEN "drain" ELSE "write"]
    /\ UNCHANGED <<keyrings, iamClient, clock, issued, ret>>

\* g calls a method whose first statement is s.mu.RLock()
CallRLock(S, g) ==
    /\ pc[g] = "idle"
    /\ \/ \E call \in LockCalls(S) :
            /\ LockMode(call.op) = "RLock"
            /\ MayCall(S, call)
            /\ cur' = [cur EXCEPT ![g] = call]
       \/ \E call \in EncryptCalls(S, g) : cur' = [cur EXCEPT ![g] = call]
       \/ \E call \in DecryptCalls(S, g) : cur' = [cur EXCEPT ![g] = call]
    /\ pc' = [pc EXCEPT ![g] = IF Writers # {} THEN "waitR" ELSE "read"]
    /\ UNCHANGED <<keyrings, iamClient, clock, issued, ret>>

\* Lock goes on in g once the writer before it has unlocked
WakeWriter(g) ==
    /\ pc[g] = "waitW"
    /\ Writers = {}
    /\ pc' = [pc EXCEPT ![g] = IF Readers # {} THEN "drain" ELSE "write"]
    /\ UNCHANGED <<keyrings, iamClient, clock, issued, ret, cur>>

\* Lock returns in g once the readers that were inside have left
Drained(g) ==
    /\ pc[g] = "drain"
    /\ Readers = {}
    /\ pc' = [pc EXCEPT ![g] = "write"]
    /\ UNCHANGED <<keyrings, iamClient, clock, issued, ret, cur>>

\* the body of the method g is running
Body(S, g) ==
    /\ pc[g] \in {"write", "read"}
    /\ cur[g].op \notin S.stepwise
    /\ \E hit \in HitsFor(keyrings, cur[g]) : \E order \in OrdersFor(keyrings, cur[g], hit) :
         LET r == Exec(keyrings, cur[g], hit, order, clock, FreshKey)
         IN  /\ IF cur[g].op \in CreatingOps THEN Tick(S, r) ELSE clock' = clock
             /\ keyrings' = r.ks
             /\ ret' = Ret(cur[g].op, cur[g].args, "", r.err, r.val)
             /\ issued' = IF cur[g].op = "Encrypt" /\ r.err = ""
                          THEN issued \cup {[keyName |-> cur[g].args[1],
                                             version |-> keyrings[hit].CryptoKeys[cur[g].args[1]].PrimaryVersion,
                                             plaintext |-> cur[g].args[2],
                                             ct |-> r.val.ct]}
                          ELSE issued
    /\ pc' = [pc EXCEPT ![g] = IF pc[g] = "write" THEN "wrote" ELSE "hasRead"]
    /\ UNCHANGED <<iamClient, cur>>

\* s.mu.Unlock() at the end of the method only, missed by the error returns
UnlockOnSuccessOnly(g) ==
    /\ pc[g] = "wrote"
    /\ ret.err = ""
    /\ pc' = [h \in Goroutines |->
                 IF h = g THEN "idle" ELSE IF pc[h] = "waitR" THEN "read" ELSE pc[h]]
    /\ cur' = [cur EXCEPT ![g] = NoCall]
    /\ UNCHANGED <<keyrings, iamClient, clock, issued, ret>>

\* CreateCryptoKeyVersion up to and including cryptoKey.Versions[versionName] = version
CreateCryptoKeyVersionInsert(ks, hit, keyName, now, symmetricKey) ==
    LET r == CreateCryptoKeyVersion(ks, hit, keyName, now, symmetricKey)
    IN  IF r.err # "" THEN r
        ELSE Result([r.ks EXCEPT ![hit].CryptoKeys[keyName].NextVersionID =
                        ks[hit].CryptoKeys[keyName].NextVersionID],
                    "", r.val)

\* cryptoKey.NextVersionID++ and the return of the version inserted before it
CreateCryptoKeyVersionAdvance(ks, hit, keyName) ==
    LET cryptoKey == ks[hit].CryptoKeys[keyName]
        versionName == VersionName(keyName, cryptoKey.NextVersionID)
    IN  Result([ks EXCEPT ![hit].CryptoKeys[keyName].NextVersionID = @ + 1], "",
               [kind |-> "CryptoKeyVersion", Name |-> versionName, State |-> "ENABLED",
                CreateTime |-> cryptoKey.Versions[versionName].CreateTime,
                Algorithm |-> AlgorithmOf(cryptoKey.VersionTemplate)])

\* the body of CreateCryptoKeyVersion, followed write by write: the lookup, and the
\* first write or the error return
BodyInsert(S, g) ==
    /\ pc[g] \in {"write", "read"}
    /\ cur[g].op \in S.stepwise
    /\ \E hit \in HitsFor(keyrings, cur[g]) :
         LET r == CreateCryptoKeyVersionInsert(keyrings, hit, cur[g].args[1], clock, FreshKey)
         IN  /\ Tick(S, r)
             /\ keyrings' = r.ks
             /\ IF r.err # ""
                THEN /\ ret' = Ret(cur[g].op, cur[g].args, "", r.err, r.val)
                     /\ pc' = [pc EXCEPT ![g] = IF pc[g] = "write" THEN "wrote" ELSE "hasRead"]
                ELSE /\ ret' = ret
                     /\ pc' = [pc EXCEPT ![g] = IF pc[g] = "write" THEN "midWrite" ELSE "midRead"]
    /\ UNCHANGED <<iamClient, issued, cur>>

\* the second write and the return
BodyAdvance(S, g) ==
    /\ pc[g] \in {"midWrite", "midRead"}
    /\ \E hit \in HitsFor(keyrings, cur[g]) :
         /\ hit # NoHit
         /\ LET r == CreateCryptoKeyVersionAdvance(keyrings, hit, cur[g].args[1])
            IN  /\ keyrings' = r.ks
                /\ ret' = Ret(cur[g].op, cur[g].args, "", r.err, r.val)
    /\ pc' = [pc EXCEPT ![g] = IF pc[g] = "midWrite" THEN "wrote" ELSE "hasRead"]
    /\ UNCHANGED <<iamClient, clock, issued, cur>>

\* defer s.mu.Unlock(): the readers blocked behind the writer enter together
Unlock(g) ==
    /\ pc[g] = "wrote"
    /\ pc' = [h \in Goroutines |->
                 IF h = g THEN "idle" ELSE IF pc[h] = "waitR" THEN "read" ELSE pc[h]]
    /\ cur' = [cur EXCEPT ![g] = NoCall]
    /\ UNCHANGED <<keyrings, iamClient, clock, issued, ret>>

\* defer s.mu.RUnlock()
RUnlock(g) ==
    /\ pc[g] = "hasRead"
    /\ pc' = [pc EXCEPT ![g] = "idle"]
    /\ cur' = [cur EXCEPT ![g] = NoCall]
    /\ UNCHANGED <<keyrings, iamClient, clock, issued, ret>>

LockStates == {"DISABLED"}
LockOps ==
    {"CreateKeyRing", "CreateCryptoKey", "GetCryptoKey", "CreateCryptoKeyVersion",
     "UpdateCryptoKey", "UpdateCryptoKeyPrimaryVersion", "UpdateCryptoKeyVersion",
     "DestroyCryptoKeyVersion", "Clear"}
LockScope ==
    LockScopeOf(LockOps, {}, OneParent, OneRing, OneKeyId, LockStates, MaxLockCreates)

NextLock ==
    \E g \in Goroutines :
        \/ CallLock(LockScope, g)
        \/ CallRLock(LockScope, g)
        \/ WakeWriter(g)
        \/ Drained(g)
        \/ Body(LockScope, g)
        \/ Unlock(g)
        \/ RUnlock(g)

SpecLock == InitStorage /\ [][NextLock]_vars

\* g holds s.mu, for writing or for reading
InCriticalSection(g) ==
    pc[g] \in {"write", "midWrite", "wrote", "read", "midRead", "hasRead"}

\* the operations that change the hierarchy
MutatingOperations ==
    {"CreateKeyRing", "CreateCryptoKey", "CreateCryptoKeyVersion", "UpdateCryptoKey",
     "UpdateCryptoKeyPrimaryVersion", "UpdateCryptoKeyVersion", "DestroyCryptoKeyVersion",
     "Clear"}

\* C20 - Mutual exclusion.  While a goroutine is inside the critical section of a
\* mutating operation, no other goroutine is inside the critical section of any
\* operation; and every change of the hierarchy is made by a goroutine that holds
\* the lock for writing, alone in its critical section.
C20_MutualExclusion ==
    /\ [](\A g \in Goroutines :
            (InCriticalSection(g) /\ cur[g].op \in MutatingOperations) =>
                \A h \in Goroutines \ {g} : ~InCriticalSection(h))
    /\ [][ keyrings' # keyrings =>
             \E g \in Goroutines :
                 /\ pc[g] = "write" /\ pc'[g] = "wrote"
                 /\ \A h \in Goroutines \ {g} : ~InCriticalSection(h)
         ]_vars

\* C20 witness: one goroutine has just changed a version's state and still holds the
\* lock, while the other, which called GetCryptoKey meanwhile, is kept waiting.
C20_Witness ==
    \E g \in Goroutines, h \in Goroutines :
        /\ pc[g] = "wrote" /\ cur[g].op = "UpdateCryptoKeyVersion" /\ ret.err = ""
        /\ ret.op = "UpdateCryptoKeyVersion"
        /\ pc[h] = "waitR" /\ cur[h].op = "GetCryptoKey"

----------------------------------------------------------------------------
(* The lookups from two goroutines, beside the creation of a key ring and a key *)

MaxReaderCreates == 2
ReadOperations ==
    {"GetKeyRing", "ListKeyRings", "GetCryptoKey", "ListCryptoKeys", "GetCryptoKeyVersion",
     "ListCryptoKeyVersions", "Encrypt", "Decrypt"}
ReaderScope ==
    LockScopeOf(ReadOperations \cup {"CreateKeyRing", "CreateCryptoKey"}, {}, OneParent,
                OneRing, OneKeyId, LockStates, MaxReaderCreates)

NextReaders ==
    \E g \in Goroutines :
        \/ CallLock(ReaderScope, g)
        \/ CallRLock(ReaderScope, g)
        \/ WakeWriter(g)
        \/ Drained(g)
        \/ Body(ReaderScope, g)
        \/ Unlock(g)
        \/ RUnlock(g)

SpecReaders == InitStorage /\ [][NextReaders]_vars

\* a writer holds the lock or has asked for it
WriterHoldsOrWaits == \E h \in Goroutines : pc[h] = "waitW" \/ h \in Writers

\* C21 - Read operations do not exclude each other.  A goroutine that calls one of
\* the lookups (GetKeyRing, ListKeyRings, GetCryptoKey, ListCryptoKeys,
\* GetCryptoKeyVersion, ListCryptoKeyVersions, Encrypt, Decrypt) while no writer
\* holds or waits for the lock is inside its critical section at once, whichever
\* lookups the other goroutines are inside; and a lookup is kept waiting only while
\* a writer holds the lock or has asked for it.
C21_ReadersShare ==
    /\ [][ \A g \in Goroutines :
              (pc[g] = "idle" /\ pc'[g] # "idle" /\ cur'[g].op \in ReadOperations
                 /\ ~WriterHoldsOrWaits) => pc'[g] = "read"
         ]_vars
    /\ [](\A g \in Goroutines :
             (cur[g].op \in ReadOperations /\ ~InCriticalSection(g)) =>
                 (pc[g] = "waitR" /\ Writers # {}))

\* C21 witness: both goroutines are inside the critical sections of lookups at the
\* same time, one of them decrypting and the other listing the versions of the key.
C21_Witness ==
    /\ pc["g1"] \in {"read", "hasRead"} /\ cur["g1"].op = "Decrypt"
    /\ pc["g2"] \in {"read", "hasRead"} /\ cur["g2"].op = "ListCryptoKeyVersions"
    /\ ~WriterHoldsOrWaits

----------------------------------------------------------------------------
(* The lock under fair scheduling *)

MaxFairCreates == 2
FairOps ==
    {"CreateKeyRing", "CreateCryptoKey", "UpdateCryptoKeyVersion", "DestroyCryptoKeyVersion",
     "GetKeyRing", "GetCryptoKey", "ListCryptoKeyVersions"}
FairScope ==
    LockScopeOf(FairOps, {}, OneParent, OneRing, OneKeyId, LockStates, MaxFairCreates)

NextLockFair ==
    \E g \in Goroutines :
        \/ CallLock(FairScope, g)
        \/ CallRLock(FairScope, g)
        \/ WakeWriter(g)
        \/ Drained(g)
        \/ Body(FairScope, g)
        \/ Unlock(g)
        \/ RUnlock(g)

\* The Go scheduler runs every runnable goroutine, so a goroutine that holds the lock
\* goes on to the end of its method and a writer goes on once the readers have left
\* (weak fairness); sync.Mutex hands the lock to a goroutine that has waited for it
\* (starvation mode), so a writer waiting behind writers gets its turn (strong
\* fairness).  Nothing obliges a goroutine to make a call.
FairLock ==
    \A g \in Goroutines :
        /\ WF_vars(Drained(g))
        /\ WF_vars(Body(FairScope, g))
        /\ WF_vars(Unlock(g))
        /\ WF_vars(RUnlock(g))
        /\ SF_vars(WakeWriter(g))

SpecLockFair == InitStorage /\ [][NextLockFair]_vars /\ FairLock

\* C22 - Lock liveness.  Under fair scheduling every call of a Storage method that
\* asks for the lock gets it, runs its body to a return (a result or an error) and
\* gives the lock back: the goroutine that made the call is idle again, outside every
\* critical section, so no caller waits for ever and the lock does not stay held by
\* a call that has returned.
C22_LockLiveness ==
    \A g \in Goroutines :
        /\ (pc[g] \in {"waitW", "drain", "waitR"}) ~> InCriticalSection(g)
        /\ InCriticalSection(g) ~> (pc[g] = "idle" /\ cur[g] = NoCall)

\* C22 witness: a call has returned an error (CreateCryptoKey in a key ring that does
\* not exist), its goroutine is idle again, and the other goroutine, which had to
\* wait for the lock, is now inside its own critical section.
C22_Witness ==
    \E g \in Goroutines, h \in Goroutines :
        /\ pc[g] = "idle" /\ cur[g] = NoCall
        /\ ret.op = "CreateCryptoKey" /\ Contains(ret.err, "keyring not found")
        /\ pc[h] = "write" /\ cur[h].op = "CreateKeyRing"

----------------------------------------------------------------------------
(* TestConcurrentAccess: a key ring and a key are created, and each goroutine
   encrypts a plaintext under the key and decrypts the ciphertext it was given *)

MaxWorkerCreates == 2
WorkerScope ==
    LockScopeOf({"CreateKeyRing", "CreateCryptoKey", "Encrypt", "Decrypt"}, {}, OneParent,
                OneRing, OneKeyId, LockStates, MaxWorkerCreates)

NextWorkers ==
    \E g \in Goroutines :
        \/ CallLock(WorkerScope, g)
        \/ CallRLock(WorkerScope, g)
        \/ WakeWriter(g)
        \/ Drained(g)
        \/ Body(WorkerScope, g)
        \/ Unlock(g)
        \/ RUnlock(g)

SpecWorkers == InitStorage /\ [][NextWorkers]_vars

\* the crypto key named is stored
KeyStored(ks, keyName) == KeyHits(ks, keyName) # {NoHit}

\* C23 - Concurrent Encrypt and Decrypt.  Of the goroutines that each encrypt a
\* plaintext under the same stored CryptoKey and then decrypt their own ciphertext,
\* every Encrypt and every Decrypt returns without error, each Decrypt returns the
\* plaintext its goroutine encrypted, and neither call changes the hierarchy.
C23_ConcurrentAccess ==
    [][ \A g \in Goroutines :
          (pc[g] = "read" /\ pc'[g] = "hasRead") =>
              /\ (cur[g].op = "Encrypt" /\ KeyStored(keyrings, cur[g].args[1])) =>
                     /\ ret'.err = ""
                     /\ keyrings' = keyrings
                     /\ \E i \in issued' : /\ i.ct = ret'.val.ct
                                            /\ i.ct.nonce = WorkerNonce(g)
                                            /\ i.plaintext = cur[g].args[2]
              /\ cur[g].op = "Decrypt" =>
                     /\ ret'.err = ""
                     /\ keyrings' = keyrings
                     /\ \A i \in issued : i.ct.nonce = WorkerNonce(g) =>
                            ret'.val = [kind |-> "bytes", bytes |-> i.plaintext]
      ]_vars

\* C23 witness: the two goroutines encrypted different plaintexts under the key and
\* both are inside Decrypt at once, one of them with its plaintext already returned.
C23_Witness ==
    /\ pc["g1"] = "hasRead" /\ cur["g1"].op = "Decrypt"
    /\ pc["g2"] = "read" /\ cur["g2"].op = "Decrypt"
    /\ ret.op = "Decrypt" /\ ret.err = "" /\ ret.val.bytes = "hello"
    /\ \E i \in issued : i.ct.nonce = WorkerNonce("g2") /\ i.plaintext = ""

----------------------------------------------------------------------------
(* The writes of a mutation one at a time, beside the lookups *)

MaxAtomicCreates == 3
AtomicScope ==
    LockScopeOf({"CreateKeyRing", "CreateCryptoKey", "CreateCryptoKeyVersion",
                 "UpdateCryptoKeyPrimaryVersion", "DestroyCryptoKeyVersion",
                 "GetCryptoKey", "ListCryptoKeyVersions"},
                {"CreateCryptoKeyVersion"}, OneParent, OneRing, OneKeyId, LockStates,
                MaxAtomicCreates)

NextAtomic ==
    \E g \in Goroutines :
        \/ CallLock(AtomicScope, g)
        \/ CallRLock(AtomicScope, g)
        \/ WakeWriter(g)
        \/ Drained(g)
        \/ Body(AtomicScope, g)
        \/ BodyInsert(AtomicScope, g)
        \/ BodyAdvance(AtomicScope, g)
        \/ Unlock(g)
        \/ RUnlock(g)

SpecAtomic == InitStorage /\ [][NextAtomic]_vars

\* what every finished mutation leaves: a key has its version 1, its primary among
\* its versions, and a counter one above the number of its versions
Complete(ks) ==
    \A r \in DOMAIN ks : \A k \in DOMAIN ks[r].CryptoKeys :
        LET ck == ks[r].CryptoKeys[k]
        IN  /\ VersionName(k, 1) \in DOMAIN ck.Versions
            /\ ck.PrimaryVersion \in DOMAIN ck.Versions
            /\ ck.NextVersionID = Cardinality(DOMAIN ck.Versions) + 1

\* C24 - All-or-nothing mutation.  A mutating operation that returns an error leaves
\* the hierarchy as it was; and while a lookup is inside its critical section the
\* hierarchy is never between the writes of a mutation: every key has its version 1
\* and its primary, and its counter is one above the number of its versions.
C24_AllOrNothing ==
    /\ [][ \A g \in Goroutines :
              (pc'[g] \in {"wrote", "hasRead"} /\ pc[g] # pc'[g]
                 /\ cur[g].op \in MutatingOperations /\ ret'.err # "") =>
                  keyrings' = keyrings
         ]_vars
    /\ [](\A g \in Goroutines :
             (cur[g].op \in ReadOperations /\ InCriticalSection(g)) =>
                 /\ Complete(keyrings)
                 /\ \A h \in Goroutines : pc[h] \notin {"midWrite", "midRead"})

\* C24 witness: CreateCryptoKeyVersion has inserted version 2 and not yet advanced
\* the counter, while the other goroutine's ListCryptoKeyVersions waits for the lock.
C24_Witness ==
    \E g \in Goroutines, h \in Goroutines :
        /\ pc[g] = "midWrite" /\ cur[g].op = "CreateCryptoKeyVersion"
        /\ ~Complete(keyrings)
        /\ pc[h] = "waitR" /\ cur[h].op = "ListCryptoKeyVersions"

----------------------------------------------------------------------------
(* SpecHierarchy: every hierarchy operation of Storage, called one after another *)

MaxHierarchyCreates == 3
HierarchyOps ==
    {"CreateKeyRing", "GetKeyRing", "ListKeyRings", "CreateCryptoKey", "GetCryptoKey",
     "ListCryptoKeys", "UpdateCryptoKey", "CreateCryptoKeyVersion", "GetCryptoKeyVersion",
     "ListCryptoKeyVersions", "UpdateCryptoKeyPrimaryVersion", "UpdateCryptoKeyVersion",
     "DestroyCryptoKeyVersion"}
HierarchyStates == {"ENABLED", "DISABLED"}
HierarchyScope ==
    LockScopeOf(HierarchyOps, {}, OneParent, OneRing, OneKeyId, HierarchyStates,
                MaxHierarchyCreates)

\* one call of the method op, from its lock to its return
CallStorage(S, op) ==
    \E call \in LockCalls(S) :
      /\ call.op = op
      /\ \E hit \in HitsFor(keyrings, call) : \E order \in OrdersFor(keyrings, call, hit) :
           LET r == Exec(keyrings, call, hit, order, clock, FreshKey)
           IN  /\ IF op \in CreatingOps THEN Tick(S, r) ELSE clock' = clock
               /\ keyrings' = r.ks
               /\ ret' = Ret(op, call.args, "", r.err, r.val)
      /\ UNCHANGED <<pc, cur, iamClient, issued>>

NextHierarchy ==
    \/ CallStorage(HierarchyScope, "CreateKeyRing")
    \/ CallStorage(HierarchyScope, "GetKeyRing")
    \/ CallStorage(HierarchyScope, "ListKeyRings")
    \/ CallStorage(HierarchyScope, "CreateCryptoKey")
    \/ CallStorage(HierarchyScope, "GetCryptoKey")
    \/ CallStorage(HierarchyScope, "ListCryptoKeys")
    \/ CallStorage(HierarchyScope, "UpdateCryptoKey")
    \/ CallStorage(HierarchyScope, "CreateCryptoKeyVersion")
    \/ CallStorage(HierarchyScope, "GetCryptoKeyVersion")
    \/ CallStorage(HierarchyScope, "ListCryptoKeyVersions")
    \/ CallStorage(HierarchyScope, "UpdateCryptoKeyPrimaryVersion")
    \/ CallStorage(HierarchyScope, "UpdateCryptoKeyVersion")
    \/ CallStorage(HierarchyScope, "DestroyCryptoKeyVersion")
    \/ CallClear

SpecHierarchy == InitStorage /\ [][NextHierarchy]_vars

----------------------------------------------------------------------------
(* SpecSiblings: two key rings with a crypto key each, their labels and versions *)

MaxSiblingCreates == 5
SiblingOps ==
    {"CreateKeyRing", "CreateCryptoKey", "CreateCryptoKeyVersion", "UpdateCryptoKey",
     "UpdateCryptoKeyVersion"}
SiblingScope ==
    LockScopeOf(SiblingOps, {}, Parents, RingNames, OneKeyId, {"DISABLED"},
                MaxSiblingCreates)

NextSiblings ==
    \/ CallStorage(SiblingScope, "CreateKeyRing")
    \/ CallStorage(SiblingScope, "CreateCryptoKey")
    \/ CallStorage(SiblingScope, "CreateCryptoKeyVersion")
    \/ CallStorage(SiblingScope, "UpdateCryptoKey")
    \/ CallStorage(SiblingScope, "UpdateCryptoKeyVersion")

SpecSiblings == InitStorage /\ [][NextSiblings]_vars

\* the key material of the stored version x = <<key ring, crypto key, version>>
MaterialOf(ks, x) == ks[x[1]].CryptoKeys[x[2]].Versions[x[3]].SymmetricKey

\* the messages in the value a call returned: the elements of a list, the message
\* itself otherwise, and the primary inside a CryptoKey
ListOperations == {"ListKeyRings", "ListCryptoKeys", "ListCryptoKeyVersions"}
MessagesOf(r) ==
    LET top == IF r.op \in ListOperations /\ r.err = ""
               THEN {r.val[i] : i \in DOMAIN r.val} ELSE {r.val}
    IN  top \cup {m.Primary : m \in {t \in top : "Primary" \in DOMAIN t}}

\* C25 - Key material is immutable and never returned.  The key material of a version
\* is the one generated when the version was created: no step changes the key
\* material of a version that is stored before and after it, whatever the operation;
\* and no message returned by a create, get, list or update operation has a field
\* holding key material.
C25_KeyMaterial ==
    /\ [][ /\ \A x \in StoredVersions(keyrings) \cap StoredVersions(keyrings') :
                MaterialOf(keyrings', x) = MaterialOf(keyrings, x)
           /\ \A x \in StoredVersions(keyrings') \ StoredVersions(keyrings) :
                MaterialOf(keyrings', x) = FreshKey
         ]_vars
    /\ [](\A m \in MessagesOf(ret) : "SymmetricKey" \notin DOMAIN m)

\* C25 witness: version 1, disabled and scheduled for destruction since, the key's
\* labels replaced and a version 2 created, still holds the key material generated at
\* its creation, and the last call returned the versions of the key.
C25_Witness ==
    \E x \in StoredVersions(keyrings) :
        /\ x[3] = VersionName(x[2], 1)
        /\ StateOf(keyrings, x) = "DESTROY_SCHEDULED"
        /\ MaterialOf(keyrings, x) = 2
        /\ keyrings[x[1]].CryptoKeys[x[2]].NextVersionID = 3
        /\ ~keyrings[x[1]].CryptoKeys[x[2]].Labels.isNil
        /\ ret.op = "ListCryptoKeyVersions" /\ ret.err = "" /\ Len(ret.val) = 2

----------------------------------------------------------------------------
(* Checked under SpecCrypt: creates, updates, destroys, Encrypt and Decrypt *)

\* the crypto keys stored, as <<key ring, crypto key>>
KeysOf(ks) == UNION {{<<r, k>> : k \in DOMAIN ks[r].CryptoKeys} : r \in DOMAIN ks}

\* every key ring, crypto key and version stored is returned under its name by the
\* Get method of its kind
Retrievable(ks) ==
    /\ \A r \in DOMAIN ks :
          GetKeyRing(ks, r).err = "" /\ GetKeyRing(ks, r).val.Name = r
    /\ \A y \in KeysOf(ks) : \A hit \in KeyHits(ks, y[2]) :
          /\ GetCryptoKey(ks, hit, y[2]).err = ""
          /\ GetCryptoKey(ks, hit, y[2]).val.kind = "CryptoKey"
          /\ GetCryptoKey(ks, hit, y[2]).val.Name = y[2]
    /\ \A x \in StoredVersions(ks) : \A hit \in VersionHits(ks, x[3]) :
          /\ GetCryptoKeyVersion(ks, hit, x[3]).err = ""
          /\ GetCryptoKeyVersion(ks, hit, x[3]).val.Name = x[3]

\* C26 - Nothing is deleted.  Across every create, update, destroy, Encrypt and
\* Decrypt call, each key ring, crypto key and version stored before the call is
\* stored after it, what a successful create names is stored, and everything stored
\* is returned under its name by GetKeyRing, GetCryptoKey or GetCryptoKeyVersion.
C26_NeverDeleted ==
    /\ [][ /\ DOMAIN keyrings \subseteq DOMAIN keyrings'
           /\ KeysOf(keyrings) \subseteq KeysOf(keyrings')
           /\ StoredVersions(keyrings) \subseteq StoredVersions(keyrings')
           /\ (ret'.err = "" /\ ret'.op = "CreateKeyRing") =>
                  ret'.val.Name \in DOMAIN keyrings'
           /\ (ret'.err = "" /\ ret'.op = "CreateCryptoKey") =>
                  \E y \in KeysOf(keyrings') : y[2] = ret'.val.Name
           /\ (ret'.err = "" /\ ret'.op = "CreateCryptoKeyVersion") =>
                  \E x \in StoredVersions(keyrings') : x[3] = ret'.val.Name
         ]_vars
    /\ []Retrievable(keyrings)

\* C26 witness: version 1 was used to encrypt, then scheduled for destruction, and a
\* Decrypt was called after that; the version is still stored under its name.
C26_Witness ==
    /\ ret.op = "Decrypt" /\ issued # {}
    /\ \E x \in StoredVersions(keyrings) :
          /\ x[3] = VersionName(x[2], 1)
          /\ StateOf(keyrings, x) = "DESTROY_SCHEDULED"
          /\ \A hit \in VersionHits(keyrings, x[3]) :
                GetCryptoKeyVersion(keyrings, hit, x[3]).val.State = "DESTROY_SCHEDULED"

----------------------------------------------------------------------------
(* gRPC handlers of the lookups, of UpdateCryptoKey and of Encrypt and Decrypt *)

\* Server.GetKeyRing
ServerGetKeyRing(ks, client, iamAnswer, name) ==
    LET perm == checkPermission(client, "GetKeyRing", iamAnswer)
        r == GetKeyRing(ks, name)
    IN  IF name = "" THEN Reply(ks, "InvalidArgument", "name is required", Nil)
        ELSE IF perm.code # "OK" THEN Reply(ks, perm.code, perm.err, Nil)
        ELSE IF r.err # "" THEN Reply(r.ks, "NotFound", r.err, Nil)
        ELSE Reply(r.ks, "OK", "", r.val)

\* Server.ListKeyRings
ServerListKeyRings(ks, client, iamAnswer, parent, order) ==
    LET perm == checkPermission(client, "ListKeyRings", iamAnswer)
        r == ListKeyRings(ks, parent, order)
    IN  IF parent = "" THEN Reply(ks, "InvalidArgument", "parent is required", Nil)
        ELSE IF perm.code # "OK" THEN Reply(ks, perm.code, perm.err, Nil)
        ELSE IF r.err # "" THEN Reply(r.ks, "Internal", r.err, Nil)
        ELSE Reply(r.ks, "OK", "",
                   [kind |-> "ListKeyRingsResponse", KeyRings |-> r.val,
                    NextPageToken |-> "", TotalSize |-> Len(r.val)])

\* Server.GetCryptoKey
ServerGetCryptoKey(ks, client, iamAnswer, hit, name) ==
    LET perm == checkPermission(client, "GetCryptoKey", iamAnswer)
        r == GetCryptoKey(ks, hit, name)
    IN  IF name = "" THEN Reply(ks, "InvalidArgument", "name is required", Nil)
        ELSE IF perm.code # "OK" THEN Reply(ks, perm.code, perm.err, Nil)
        ELSE IF r.err # "" THEN Reply(r.ks, "NotFound", r.err, Nil)
        ELSE Reply(r.ks, "OK", "", r.val)

\* Server.ListCryptoKeys
ServerListCryptoKeys(ks, client, iamAnswer, parent, order) ==
    LET perm == checkPermission(client, "ListCryptoKeys", iamAnswer)
        r == ListCryptoKeys(ks, parent, order)
    IN  IF parent = "" THEN Reply(ks, "InvalidArgument", "parent is required", Nil)
        ELSE IF perm.code # "OK" THEN Reply(ks, perm.code, perm.err, Nil)
        ELSE IF r.err # ""
        THEN IF Contains(r.err, "not found")
             THEN Reply(r.ks, "NotFound", r.err, Nil)
             ELSE Reply(r.ks, "Internal", r.err, Nil)
        ELSE Reply(r.ks, "OK", "",
                   [kind |-> "ListCryptoKeysResponse", CryptoKeys |-> r.val,
                    NextPageToken |-> "", TotalSize |-> Len(r.val)])

\* Server.ListCryptoKeyVersions
ServerListCryptoKeyVersions(ks, client, iamAnswer, hit, parent, order) ==
    LET perm == checkPermission(client, "ListCryptoKeyVersions", iamAnswer)
        r == ListCryptoKeyVersions(ks, hit, parent, order)
    IN  IF parent = "" THEN Reply(ks, "InvalidArgument", "parent is required", Nil)
        ELSE IF perm.code # "OK" THEN Reply(ks, perm.code, perm.err, Nil)
        ELSE IF r.err # ""
        THEN IF Contains(r.err, "not found")
             THEN Reply(r.ks, "NotFound", r.err, Nil)
             ELSE Reply(r.ks, "Internal", r.err, Nil)
        ELSE Reply(r.ks, "OK", "",
                   [kind |-> "ListCryptoKeyVersionsResponse", CryptoKeyVersions |-> r.val,
                    NextPageToken |-> "", TotalSize |-> Len(r.val)])

\* Server.GetCryptoKeyVersion
ServerGetCryptoKeyVersion(ks, client, iamAnswer, hit, name) ==
    LET perm == checkPermission(client, "GetCryptoKeyVersion", iamAnswer)
        r == GetCryptoKeyVersion(ks, hit, name)
    IN  IF name = "" THEN Reply(ks, "InvalidArgument", "name is required", Nil)
        ELSE IF perm.code # "OK" THEN Reply(ks, perm.code, perm.err, Nil)
        ELSE IF r.err # "" THEN Reply(r.ks, "NotFound", r.err, Nil)
        ELSE Reply(r.ks, "OK", "", r.val)

\* req.CryptoKey of an UpdateCryptoKeyRequest: nil, or a key with a name and labels
NilCryptoKeyUpdate == [isNil |-> TRUE, Name |-> "", Labels |-> NilLabels]
CryptoKeyUpdates(names) ==
    {NilCryptoKeyUpdate}
        \cup {[isNil |-> FALSE, Name |-> n, Labels |-> LabelArg(l)] :
                  n \in names \cup {""}, l \in LabelChoices}

\* Server.UpdateCryptoKey handing Storage an empty map where the request has none
ServerUpdateCryptoKeyEmptyForNil(ks, client, iamAnswer, hit, cryptoKey) ==
    LET perm == checkPermission(client, "UpdateCryptoKey", iamAnswer)
        labels == IF cryptoKey.Labels.isNil THEN [isNil |-> FALSE, m |-> {}]
                  ELSE cryptoKey.Labels
        r == UpdateCryptoKey(ks, hit, cryptoKey.Name, labels)
    IN  IF cryptoKey.isNil \/ cryptoKey.Name = ""
        THEN Reply(ks, "InvalidArgument", "crypto_key.name is required", Nil)
        ELSE IF perm.code # "OK" THEN Reply(ks, perm.code, perm.err, Nil)
        ELSE IF r.err # ""
        THEN IF Contains(r.err, "not found")
             THEN Reply(r.ks, "NotFound", r.err, Nil)
             ELSE Reply(r.ks, "Internal", r.err, Nil)
        ELSE Reply(r.ks, "OK", "", r.val)

\* Server.UpdateCryptoKey; hit is where Storage's lookup of the name stops
ServerUpdateCryptoKey(ks, client, iamAnswer, hit, cryptoKey) ==
    LET perm == checkPermission(client, "UpdateCryptoKey", iamAnswer)
        r == UpdateCryptoKey(ks, hit, cryptoKey.Name, cryptoKey.Labels)
    IN  IF cryptoKey.isNil \/ cryptoKey.Name = ""
        THEN Reply(ks, "InvalidArgument", "crypto_key.name is required", Nil)
        ELSE IF perm.code # "OK" THEN Reply(ks, perm.code, perm.err, Nil)
        ELSE IF r.err # ""
        THEN IF Contains(r.err, "not found")
             THEN Reply(r.ks, "NotFound", r.err, Nil)
             ELSE Reply(r.ks, "Internal", r.err, Nil)
        ELSE Reply(r.ks, "OK", "", r.val)

RpcGetKeyRing(S) ==
    \E name \in S.rings \cup {""}, iamAnswer \in AnswersFor(iamClient) :
        LET r == ServerGetKeyRing(keyrings, iamClient, iamAnswer, name)
        IN  /\ keyrings' = r.ks
            /\ ret' = Ret("Server.GetKeyRing", <<name, iamAnswer>>, r.code, r.err, r.val)
            /\ UNCHANGED <<pc, cur, iamClient, clock, issued>>

RpcListKeyRings(S) ==
    \E parent \in S.parents \cup {""}, iamAnswer \in AnswersFor(iamClient) :
      \E order \in Orders(DOMAIN keyrings) :
        LET r == ServerListKeyRings(keyrings, iamClient, iamAnswer, parent, order)
        IN  /\ keyrings' = r.ks
            /\ ret' = Ret("Server.ListKeyRings", <<parent, iamAnswer>>, r.code, r.err, r.val)
            /\ UNCHANGED <<pc, cur, iamClient, clock, issued>>

RpcGetCryptoKey(S) ==
    \E name \in KeyNames(S) \cup {""}, iamAnswer \in AnswersFor(iamClient) :
      \E hit \in KeyHits(keyrings, name) :
        LET r == ServerGetCryptoKey(keyrings, iamClient, iamAnswer, hit, name)
        IN  /\ keyrings' = r.ks
            /\ ret' = Ret("Server.GetCryptoKey", <<name, iamAnswer>>, r.code, r.err, r.val)
            /\ UNCHANGED <<pc, cur, iamClient, clock, issued>>

RpcListCryptoKeys(S) ==
    \E parent \in S.rings \cup {""}, iamAnswer \in AnswersFor(iamClient) :
      \E order \in OrdersFor(keyrings, Call("ListCryptoKeys", <<parent>>), NoHit) :
        LET r == ServerListCryptoKeys(keyrings, iamClient, iamAnswer, parent, order)
        IN  /\ keyrings' = r.ks
            /\ ret' = Ret("Server.ListCryptoKeys", <<parent, iamAnswer>>,
                          r.code, r.err, r.val)
            /\ UNCHANGED <<pc, cur, iamClient, clock, issued>>

RpcListCryptoKeyVersions(S) ==
    \E parent \in KeyNames(S) \cup {""}, iamAnswer \in AnswersFor(iamClient) :
      \E hit \in KeyHits(keyrings, parent) :
        \E order \in VisitOrders(keyrings, hit, parent) :
          LET r == ServerListCryptoKeyVersions(keyrings, iamClient, iamAnswer, hit, parent,
                                               order)
          IN  /\ keyrings' = r.ks
              /\ ret' = Ret("Server.ListCryptoKeyVersions", <<parent, iamAnswer>>,
                            r.code, r.err, r.val)
              /\ UNCHANGED <<pc, cur, iamClient, clock, issued>>

RpcGetCryptoKeyVersion(S) ==
    \E name \in VersionNames(S) \cup {""}, iamAnswer \in AnswersFor(iamClient) :
      \E hit \in VersionHits(keyrings, name) :
        LET r == ServerGetCryptoKeyVersion(keyrings, iamClient, iamAnswer, hit, name)
        IN  /\ keyrings' = r.ks
            /\ ret' = Ret("Server.GetCryptoKeyVersion", <<name, iamAnswer>>,
                          r.code, r.err, r.val)
            /\ UNCHANGED <<pc, cur, iamClient, clock, issued>>

RpcUpdateCryptoKey(S) ==
    \E cryptoKey \in CryptoKeyUpdates(KeyNames(S)), iamAnswer \in AnswersFor(iamClient) :
      \E hit \in KeyHits(keyrings, cryptoKey.Name) :
        LET r == ServerUpdateCryptoKey(keyrings, iamClient, iamAnswer, hit, cryptoKey)
        IN  /\ keyrings' = r.ks
            /\ ret' = Ret("Server.UpdateCryptoKey", <<cryptoKey, iamAnswer>>,
                          r.code, r.err, r.val)
            /\ UNCHANGED <<pc, cur, iamClient, clock, issued>>

----------------------------------------------------------------------------
(* SpecLookups: the lookups of a server without IAM, beside the creation of key
   rings in two locations, of a key and of versions, and changes of version state *)

MaxLookupCreates == 3
TwoRings == {KeyRingName(p, "r") : p \in Parents}
LookupScope == HandlerScope(Parents, {"r"}, TwoRings, OneKeyId, LockStates, MaxLookupCreates)

NextLookups ==
    \/ RpcCreateKeyRing(LookupScope)
    \/ RpcCreateCryptoKey(LookupScope)
    \/ RpcCreateCryptoKeyVersion(LookupScope)
    \/ RpcUpdateCryptoKeyVersion(LookupScope)
    \/ RpcDestroyCryptoKeyVersion(LookupScope)
    \/ RpcGetKeyRing(LookupScope)
    \/ RpcListKeyRings(LookupScope)
    \/ RpcGetCryptoKey(LookupScope)
    \/ RpcListCryptoKeys(LookupScope)
    \/ RpcGetCryptoKeyVersion(LookupScope)
    \/ RpcListCryptoKeyVersions(LookupScope)

SpecLookups == InitStorage /\ [][NextLookups]_vars

\* the names of the messages in a list
NamesIn(list) == {list[i].Name : i \in DOMAIN list}

\* the key rings stored whose name is parent/keyRings/{id}
RingsUnder(ks, parent) ==
    {r \in DOMAIN ks : \E id \in {"r"} : r = KeyRingName(parent, id)}

\* C27 - ListKeyRings is scoped to its parent.  A successful ListKeyRings(parent)
\* returns the key rings created under that parent location, each once, and no key
\* ring of another location.
C27_ListKeyRingsOfParent ==
    [](ret.op = "Server.ListKeyRings" /\ ret.code = "OK" =>
          /\ NamesIn(ret.val.KeyRings) = RingsUnder(keyrings, ret.args[1])
          /\ ret.val.TotalSize = Cardinality(RingsUnder(keyrings, ret.args[1])))

\* the lookups the claim is about, and the name asked for in the last call
LookupRpcs ==
    {"Server.GetKeyRing", "Server.GetCryptoKey", "Server.GetCryptoKeyVersion",
     "Server.ListCryptoKeys", "Server.ListCryptoKeyVersions"}
Asked == ret.args[1]

\* C28 - Lookups reflect what was created.  GetKeyRing, GetCryptoKey and
\* GetCryptoKeyVersion answer OK with the resource of that name iff a resource of
\* that name is stored, and NotFound otherwise; ListCryptoKeys answers NotFound when
\* the key ring is absent and otherwise exactly the keys of the ring;
\* ListCryptoKeyVersions answers NotFound when the key is absent and otherwise
\* exactly the versions of the key, each with its current state.
C28_Lookups ==
    []((ret.op \in LookupRpcs /\ Asked # "") =>
        /\ ret.op = "Server.GetKeyRing" =>
              IF Asked \in DOMAIN keyrings
              THEN ret.code = "OK" /\ ret.val = KeyRingMsg(keyrings[Asked])
              ELSE ret.code = "NotFound" /\ ret.val = Nil
        /\ ret.op = "Server.GetCryptoKey" =>
              IF KeyStored(keyrings, Asked)
              THEN /\ ret.code = "OK" /\ ret.val.kind = "CryptoKey"
                   /\ ret.val.Name = Asked
              ELSE ret.code = "NotFound" /\ ret.val = Nil
        /\ ret.op = "Server.GetCryptoKeyVersion" =>
              IF Locations(Asked) # {}
              THEN /\ ret.code = "OK" /\ ret.val.Name = Asked
                   /\ \A h \in Locations(Asked) :
                         ret.val.State = StateOf(keyrings, <<h[1], h[2], Asked>>)
              ELSE ret.code = "NotFound" /\ ret.val = Nil
        /\ ret.op = "Server.ListCryptoKeys" =>
              IF Asked \in DOMAIN keyrings
              THEN /\ ret.code = "OK"
                   /\ NamesIn(ret.val.CryptoKeys) = DOMAIN keyrings[Asked].CryptoKeys
                   /\ Len(ret.val.CryptoKeys) = Cardinality(DOMAIN keyrings[Asked].CryptoKeys)
              ELSE ret.code = "NotFound" /\ ret.val = Nil
        /\ ret.op = "Server.ListCryptoKeyVersions" =>
              IF KeyStored(keyrings, Asked)
              THEN /\ ret.code = "OK"
                   /\ \A r \in KeyHits(keyrings, Asked) :
                         LET versions == keyrings[r].CryptoKeys[Asked].Versions
                         IN  /\ {ret.val.CryptoKeyVersions[i] :
                                    i \in DOMAIN ret.val.CryptoKeyVersions}
                                  = {VersionMsg(versions[v]) : v \in DOMAIN versions}
                             /\ Len(ret.val.CryptoKeyVersions) = Cardinality(DOMAIN versions)
              ELSE ret.code = "NotFound" /\ ret.val = Nil)

\* C28 witness: ListCryptoKeyVersions has returned the two versions of the key, the
\* first of them scheduled for destruction.
C28_Witness ==
    /\ ret.op = "Server.ListCryptoKeyVersions" /\ ret.code = "OK"
    /\ Len(ret.val.CryptoKeyVersions) = 2
    /\ \E i \in 1..2 : /\ ret.val.CryptoKeyVersions[i].Name = VersionName(Asked, 1)
                        /\ ret.val.CryptoKeyVersions[i].State = "DESTROY_SCHEDULED"

----------------------------------------------------------------------------
(* SpecLabels: UpdateCryptoKey on a server without IAM, beside the creation of a
   key ring, a key and a version, and GetCryptoKey *)

MaxLabelCreates == 3
LabelScope ==
    HandlerScope(OneParent, {"r"}, OneRing, OneKeyId, LockStates, MaxLabelCreates)

NextLabels ==
    \/ RpcCreateKeyRing(LabelScope)
    \/ RpcCreateCryptoKey(LabelScope)
    \/ RpcCreateCryptoKeyVersion(LabelScope)
    \/ RpcUpdateCryptoKey(LabelScope)
    \/ RpcGetCryptoKey(LabelScope)

SpecLabels == InitStorage /\ [][NextLabels]_vars

\* the step is a call of UpdateCryptoKey with a named key
UpdateCryptoKeyStep ==
    /\ ret'.op = "Server.UpdateCryptoKey"
    /\ ~ret'.args[1].isNil /\ ret'.args[1].Name # ""

\* the hierarchy with the labels of the key set to labels, wherever the key is
WithLabels(ks, keyName, labels) ==
    [r \in DOMAIN ks |->
        IF keyName \in DOMAIN ks[r].CryptoKeys
        THEN [ks[r] EXCEPT !.CryptoKeys[keyName].Labels = labels]
        ELSE ks[r]]

\* C29 as stated - on success the labels of the key equal the labels supplied,
\* whatever was supplied, and nothing else changes.
C29_LabelsEqualSupplied ==
    [][ (UpdateCryptoKeyStep /\ ret'.code = "OK") =>
            keyrings' = WithLabels(keyrings, ret'.args[1].Name, ret'.args[1].Labels)
      ]_vars

\* C29 - UpdateCryptoKey.  The call answers NotFound, changing nothing, when no key
\* of that name is stored; when it succeeds with a label map that is not nil the
\* labels of the key are the labels supplied, when it succeeds with a nil map the
\* labels are what they were, nothing else changes in either case, and the key
\* returned carries the labels now stored.
C29_UpdateCryptoKey ==
    [][ UpdateCryptoKeyStep =>
          LET name == ret'.args[1].Name
              labels == ret'.args[1].Labels
          IN  IF ~KeyStored(keyrings, name)
              THEN ret'.code = "NotFound" /\ keyrings' = keyrings
              ELSE /\ ret'.code = "OK"
                   /\ keyrings' = IF labels.isNil THEN keyrings
                                  ELSE WithLabels(keyrings, name, labels)
                   /\ \A r \in KeyHits(keyrings', name) :
                         ret'.val.Labels = keyrings'[r].CryptoKeys[name].Labels
      ]_vars

\* C29 witness: UpdateCryptoKey has succeeded with a nil label map on a key whose
\* labels were set by an earlier call, and the key still has those labels.
C29_Witness ==
    /\ ret.op = "Server.UpdateCryptoKey" /\ ret.code = "OK"
    /\ ret.args[1].Labels.isNil
    /\ \A r \in KeyHits(keyrings, ret.args[1].Name) :
          keyrings[r].CryptoKeys[ret.args[1].Name].Labels = LabelArg("team=a")

----------------------------------------------------------------------------
(* SpecIam: every handler, on a server with or without an IAM client *)

\* Server.Encrypt checking the permission before it validates the request
ServerEncryptCheckFirst(ks, client, iamAnswer, hit, name, plaintext, nonce) ==
    LET perm == checkPermission(client, "Encrypt", iamAnswer)
        r == Encrypt(ks, hit, name, plaintext, nonce)
    IN  IF perm.code # "OK" THEN Reply(ks, perm.code, perm.err, Nil)
        ELSE IF name = "" THEN Reply(ks, "InvalidArgument", "name is required", Nil)
        ELSE IF Len(plaintext) = 0
        THEN Reply(ks, "InvalidArgument", "plaintext is required", Nil)
        ELSE IF r.err # ""
        THEN IF Contains(r.err, "not found")
             THEN Reply(r.ks, "NotFound", r.err, Nil)
             ELSE Reply(r.ks, "Internal", r.err, Nil)
        ELSE Reply(r.ks, "OK", "",
                   [kind |-> "EncryptResponse", Name |-> name, Ciphertext |-> r.val.ct])

\* Server.Encrypt
ServerEncrypt(ks, client, iamAnswer, hit, name, plaintext, nonce) ==
    LET perm == checkPermission(client, "Encrypt", iamAnswer)
        r == Encrypt(ks, hit, name, plaintext, nonce)
    IN  IF name = "" THEN Reply(ks, "InvalidArgument", "name is required", Nil)
        ELSE IF Len(plaintext) = 0
        THEN Reply(ks, "InvalidArgument", "plaintext is required", Nil)
        ELSE IF perm.code # "OK" THEN Reply(ks, perm.code, perm.err, Nil)
        ELSE IF r.err # ""
        THEN IF Contains(r.err, "not found")
             THEN Reply(r.ks, "NotFound", r.err, Nil)
             ELSE Reply(r.ks, "Internal", r.err, Nil)
        ELSE Reply(r.ks, "OK", "",
                   [kind |-> "EncryptResponse", Name |-> name, Ciphertext |-> r.val.ct])

\* a request without ciphertext bytes
EmptyCiphertext == [len |-> 0, nonce |-> 0, box |-> [key |-> 0, nonce |-> 0, pt |-> ""]]

\* Server.Decrypt
ServerDecrypt(ks, client, iamAnswer, hit, name, ciphertext, order) ==
    LET perm == checkPermission(client, "Decrypt", iamAnswer)
        r == Decrypt(ks, hit, name, ciphertext, order)
    IN  IF name = "" THEN Reply(ks, "InvalidArgument", "name is required", Nil)
        ELSE IF ciphertext.len = 0
        THEN Reply(ks, "InvalidArgument", "ciphertext is required", Nil)
        ELSE IF perm.code # "OK" THEN Reply(ks, perm.code, perm.err, Nil)
        ELSE IF r.err # ""
        THEN IF Contains(r.err, "not found")
             THEN Reply(r.ks, "NotFound", r.err, Nil)
             ELSE Reply(r.ks, "Internal", r.err, Nil)
        ELSE Reply(r.ks, "OK", "",
                   [kind |-> "DecryptResponse", Plaintext |-> r.val.bytes])

RpcEncrypt(S) ==
    \E name \in KeyNames(S) \cup {""}, plaintext \in Plaintexts, nonce \in Nonces,
       iamAnswer \in AnswersFor(iamClient) :
      \E hit \in KeyHits(keyrings, name) :
        LET r == ServerEncrypt(keyrings, iamClient, iamAnswer, hit, name, plaintext, nonce)
        IN  /\ keyrings' = r.ks
            /\ issued' = IF r.code = "OK"
                         THEN issued \cup
                                  {[keyName |-> name,
                                    version |-> keyrings[hit].CryptoKeys[name].PrimaryVersion,
                                    plaintext |-> plaintext,
                                    ct |-> r.val.Ciphertext]}
                         ELSE issued
            /\ Cardinality(issued') <= S.issue
            /\ ret' = Ret("Server.Encrypt", <<name, plaintext, iamAnswer>>,
                          r.code, r.err, r.val)
            /\ UNCHANGED <<pc, cur, iamClient, clock>>

RpcDecrypt(S) ==
    \E name \in KeyNames(S) \cup {""}, ciphertext \in DecryptInputs \cup {EmptyCiphertext},
       iamAnswer \in AnswersFor(iamClient) :
      \E hit \in KeyHits(keyrings, name) :
        \E order \in VisitOrders(keyrings, hit, name) :
          LET r == ServerDecrypt(keyrings, iamClient, iamAnswer, hit, name, ciphertext,
                                 order)
          IN  /\ keyrings' = r.ks
              /\ ret' = Ret("Server.Decrypt", <<name, ciphertext, iamAnswer>>,
                            r.code, r.err, r.val)
              /\ UNCHANGED <<pc, cur, iamClient, clock, issued>>

MaxIamCreates == 2
\* one ciphertext is remembered for each crypto key of the scope
IamScope ==
    [HandlerScope(OneParent, {"r"}, OneRing, OneKeyId, LockStates, MaxIamCreates)
        EXCEPT !.issue = Cardinality(OneKeyId)]

NextIam ==
    \/ RpcCreateKeyRing(IamScope)
    \/ RpcGetKeyRing(IamScope)
    \/ RpcListKeyRings(IamScope)
    \/ RpcCreateCryptoKey(IamScope)
    \/ RpcGetCryptoKey(IamScope)
    \/ RpcListCryptoKeys(IamScope)
    \/ RpcUpdateCryptoKey(IamScope)
    \/ RpcEncrypt(IamScope)
    \/ RpcDecrypt(IamScope)
    \/ RpcCreateCryptoKeyVersion(IamScope)
    \/ RpcGetCryptoKeyVersion(IamScope)
    \/ RpcListCryptoKeyVersions(IamScope)
    \/ RpcUpdateCryptoKeyVersion(IamScope)
    \/ RpcUpdateCryptoKeyPrimaryVersion(IamScope)
    \/ RpcDestroyCryptoKeyVersion(IamScope)

SpecIam == Init /\ [][NextIam]_vars

\* the request of the call recorded in r has every field its handler requires
ValidRequest(r) ==
    CASE r.op \in {"Server.CreateKeyRing", "Server.UpdateCryptoKeyPrimaryVersion"} ->
             r.args[1] # "" /\ r.args[2] # ""
      [] r.op = "Server.CreateCryptoKey" ->
             r.args[1] # "" /\ r.args[2] # "" /\ ~r.args[3].isNil
      [] r.op = "Server.UpdateCryptoKey" -> ~r.args[1].isNil /\ r.args[1].Name # ""
      [] r.op = "Server.UpdateCryptoKeyVersion" ->
             /\ ~r.args[1].isNil /\ r.args[1].Name # ""
             /\ r.args[1].State # "CRYPTO_KEY_VERSION_STATE_UNSPECIFIED"
      [] r.op = "Server.Encrypt" -> r.args[1] # "" /\ Len(r.args[2]) > 0
      [] r.op = "Server.Decrypt" -> r.args[1] # "" /\ r.args[2].len > 0
      [] OTHER -> r.args[1] # ""

\* what the IAM service answered in the call recorded in r
IamAnswerIn(r) == r.args[Len(r.args)]

\* C30 - Authorization gate.  In every RPC: a request that fails field validation is
\* answered InvalidArgument whatever the IAM service would say; a valid request that
\* the check denies is answered PermissionDenied, and one for which the check
\* itself fails is answered with the IAM error, in both cases with no value and the
\* hierarchy untouched; and without an IAM client no check is made and no request
\* is refused for permission.
C30_AuthorizationGate ==
    [][ ret' # ret =>
          /\ ~ValidRequest(ret') =>
                 ret'.code = "InvalidArgument" /\ keyrings' = keyrings
          /\ (ValidRequest(ret') /\ IamAnswerIn(ret') = "denied") =>
                 /\ ret'.code = "PermissionDenied" /\ ret'.val = Nil
                 /\ keyrings' = keyrings
          /\ (ValidRequest(ret') /\ IamAnswerIn(ret') = "error") =>
                 /\ ret'.code = "Internal" /\ Contains(ret'.err, "IAM check failed")
                 /\ ret'.val = Nil /\ keyrings' = keyrings
          /\ (ValidRequest(ret') /\ IamAnswerIn(ret') \in {"allowed", "unasked"}) =>
                 /\ ret'.code # "PermissionDenied"
                 /\ ret'.code = "Internal" => ~Contains(ret'.err, "IAM check failed")
          /\ iamClient = "nil" <=> IamAnswerIn(ret') = "unasked"
      ]_vars

\* C30 witness: with an IAM client configured, DestroyCryptoKeyVersion of a stored,
\* enabled version was denied, and the version is still enabled.
C30_Witness ==
    /\ iamClient = "client"
    /\ ret.op = "Server.DestroyCryptoKeyVersion" /\ ret.code = "PermissionDenied"
    /\ \E x \in StoredVersions(keyrings) :
          x[3] = ret.args[1] /\ StateOf(keyrings, x) = "ENABLED"

----------------------------------------------------------------------------
(* SpecDecrypt: Encrypt, Decrypt and the lookups on two keys of one ring, IAM off *)

\* successful creates in one run of SpecDecrypt
MaxDecryptCreates == 3
DecryptScope ==
    [HandlerScope(OneParent, {"r"}, OneRing, KeyIds, {"DISABLED"}, MaxDecryptCreates)
        EXCEPT !.issue = MaxIssued]

NextDecrypt ==
    \/ RpcCreateKeyRing(DecryptScope)
    \/ RpcCreateCryptoKey(DecryptScope)
    \/ RpcUpdateCryptoKeyVersion(DecryptScope)
    \/ RpcEncrypt(DecryptScope)
    \/ RpcDecrypt(DecryptScope)
    \/ RpcGetKeyRing(DecryptScope)
    \/ RpcListKeyRings(DecryptScope)
    \/ RpcGetCryptoKey(DecryptScope)
    \/ RpcListCryptoKeys(DecryptScope)
    \/ RpcGetCryptoKeyVersion(DecryptScope)
    \/ RpcListCryptoKeyVersions(DecryptScope)

SpecDecrypt == InitStorage /\ [][NextDecrypt]_vars

\* the handlers of Encrypt, Decrypt and the Get and List operations
ReadOnlyRpcs ==
    {"Server.Encrypt", "Server.Decrypt", "Server.GetKeyRing", "Server.ListKeyRings",
     "Server.GetCryptoKey", "Server.ListCryptoKeys", "Server.GetCryptoKeyVersion",
     "Server.ListCryptoKeyVersions"}

\* ct was sealed for another key
WrongKey(keyName, ct) == \E i \in issued : i.ct = ct /\ i.keyName # keyName
\* ct is a ciphertext handed out earlier with its nonce bytes changed
Tampered(ct) == \E i \in issued : ct = FlipNonce(i.ct)
\* ct has fewer bytes than the nonce
TooShort(ct) == ct.len < NonceSize
\* the stored key has no version in state ENABLED
NoEnabledVersion(hit, keyName) ==
    \A v \in DOMAIN keyrings[hit].CryptoKeys[keyName].Versions :
        ~EnabledIn(keyrings[hit].CryptoKeys[keyName], v)

\* C31 - Decrypt failures and read-only operations.  In every reachable state, for
\* every key name, every input and every visiting order: Decrypt on a name no stored
\* key has is answered NotFound; Decrypt on a stored key of a ciphertext sealed for
\* another key, tampered with, shorter than the nonce, or when the key has no ENABLED
\* version, fails with the one error "failed to decrypt with any key version" and
\* no plaintext.  Every Encrypt, Decrypt, Get and List call, failed or not, leaves
\* the hierarchy as it was.
C31_DecryptFailures ==
    /\ [](\A keyName \in KeyNames(DecryptScope), ct \in DecryptInputs :
            \A hit \in KeyHits(keyrings, keyName) :
              \A order \in VisitOrders(keyrings, hit, keyName) :
                LET s == Decrypt(keyrings, hit, keyName, ct, order)
                    r == ServerDecrypt(keyrings, iamClient, "unasked", hit, keyName, ct,
                                       order)
                IN  /\ hit = NoHit =>
                          r.code = "NotFound" /\ r.val = Nil /\ s.val = Nil
                    /\ (/\ hit # NoHit
                        /\ \/ WrongKey(keyName, ct) \/ Tampered(ct) \/ TooShort(ct)
                           \/ NoEnabledVersion(hit, keyName)) =>
                          /\ s.err = "failed to decrypt with any key version"
                          /\ s.val = Nil
                          /\ r.code = "Internal" /\ r.err = s.err /\ r.val = Nil
                    /\ s.ks = keyrings /\ r.ks = keyrings)
    /\ [][ret'.op \in ReadOnlyRpcs => keyrings' = keyrings]_vars

\* C31 witness: a Decrypt call on a stored key with an ENABLED version was handed a
\* ciphertext sealed for another key and failed with the aggregate error.
C31_Witness ==
    /\ ret.op = "Server.Decrypt" /\ ret.code = "Internal"
    /\ ret.err = "failed to decrypt with any key version" /\ ret.val = Nil
    /\ WrongKey(ret.args[1], ret.args[2])
    /\ \E hit \in Holders(ret.args[1]) : ~NoEnabledVersion(hit, ret.args[1])

----------------------------------------------------------------------------
(* Checked under SpecCrypt: the primary pointer after its version changes state *)

\* the stored version x = <<key ring, crypto key, version>> is the primary of its key
IsPrimary(ks, x) == ks[x[1]].CryptoKeys[x[2]].PrimaryVersion = x[3]

\* C32 - The primary pointer is not re-validated.  UpdateCryptoKeyVersion on the
\* version that is a key's primary succeeds, sets the state asked for and leaves the
\* pointer on it; DestroyCryptoKeyVersion on a primary version that is neither
\* DESTROY_SCHEDULED nor DESTROYED succeeds, schedules it and leaves the pointer on it.
\* In every reachable state where a key's primary is not ENABLED, Encrypt on that key
\* fails for every plaintext, while every ciphertext handed out earlier by a version
\* of the key that is ENABLED now decrypts to its plaintext.
C32_PrimaryNotRevalidated ==
    /\ [][ ret'.op \in {"UpdateCryptoKeyVersion", "DestroyCryptoKeyVersion"} =>
            \A x \in StoredVersions(keyrings) :
              (x[3] = ret'.args[1] /\ IsPrimary(keyrings, x)) =>
                /\ ret'.op = "UpdateCryptoKeyVersion" =>
                      /\ ret'.err = ""
                      /\ StateOf(keyrings', x) = ret'.args[2]
                /\ (/\ ret'.op = "DestroyCryptoKeyVersion"
                    /\ StateOf(keyrings, x) \notin {"DESTROY_SCHEDULED", "DESTROYED"}) =>
                      /\ ret'.err = ""
                      /\ StateOf(keyrings', x) = "DESTROY_SCHEDULED"
                /\ IsPrimary(keyrings', x)
       ]_vars
    /\ [](\A keyName \in KeyNames(CryptScope) : \A hit \in Holders(keyName) :
            LET ck == keyrings[hit].CryptoKeys[keyName]
            IN  ~EnabledIn(ck, ck.PrimaryVersion) =>
                  /\ \A plaintext \in Plaintexts, nonce \in Nonces :
                       LET e == Encrypt(keyrings, hit, keyName, plaintext, nonce)
                       IN  e.err = "primary version is not enabled" /\ e.val = Nil
                  /\ \A i \in issued :
                       (i.keyName = keyName /\ EnabledIn(ck, i.version)) =>
                           DecryptsTo(hit, keyName, i.ct, i.plaintext))

\* C32 witness: DestroyCryptoKeyVersion has just succeeded on a key's primary, which
\* stays the primary in state DESTROY_SCHEDULED, while a ciphertext of another
\* version of the key, still ENABLED, was handed out earlier.
C32_Witness ==
    /\ ret.op = "DestroyCryptoKeyVersion" /\ ret.err = ""
    /\ \E x \in StoredVersions(keyrings) :
         /\ x[3] = ret.args[1] /\ IsPrimary(keyrings, x)
         /\ StateOf(keyrings, x) = "DESTROY_SCHEDULED"
         /\ \E i \in issued :
              /\ i.keyName = x[2] /\ i.version # x[3]
              /\ EnabledIn(keyrings[x[1]].CryptoKeys[x[2]], i.version)

----------------------------------------------------------------------------
(* SpecRace: two goroutines racing the creates of one ring, one key and its versions *)

\* successful creates in one run of SpecRace
MaxRaceCreates == 4
RaceOps == {"CreateKeyRing", "CreateCryptoKey", "CreateCryptoKeyVersion", "GetCryptoKey"}
RaceScope ==
    LockScopeOf(RaceOps, {"CreateCryptoKeyVersion"}, OneParent, OneRing, OneKeyId,
                LockStates, MaxRaceCreates)

NextRace ==
    \E g \in Goroutines :
        \/ CallLock(RaceScope, g)
        \/ CallRLock(RaceScope, g)
        \/ WakeWriter(g)
        \/ Drained(g)
        \/ Body(RaceScope, g)
        \/ BodyInsert(RaceScope, g)
        \/ BodyAdvance(RaceScope, g)
        \/ Unlock(g)
        \/ RUnlock(g)

SpecRace == InitStorage /\ [][NextRace]_vars

\* g returns from the body of the method it called
Returns(g) == pc[g] # pc'[g] /\ pc'[g] \in {"wrote", "hasRead"}

\* C33 - Racing creates are linearized.  Every successful create adds one resource of
\* its own: the creates that succeeded are as many as the key rings and versions
\* stored, and the version ids of a key are 1..n without gap or repeat.  A CreateKeyRing
\* (CreateCryptoKey) returns success exactly when the name was not stored and is
\* refused with "already exists" when it was, so of the callers racing on one name
\* exactly one succeeds; every CreateCryptoKeyVersion on a stored key succeeds and
\* returns the id next to the one returned before it.
C33_RacingCreates ==
    /\ [](/\ clock - 1 = Cardinality(DOMAIN keyrings)
                             + Cardinality(StoredVersions(keyrings))
          /\ \A x \in StoredVersions(keyrings) :
                \E n \in 1..Cardinality(DOMAIN keyrings[x[1]].CryptoKeys[x[2]].Versions) :
                    x[3] = VersionName(x[2], n))
    /\ [][ \A g \in Goroutines : Returns(g) =>
             /\ cur[g].op = "CreateKeyRing" =>
                   IF cur[g].args[1] \in DOMAIN keyrings
                   THEN Contains(ret'.err, "already exists") /\ keyrings' = keyrings
                   ELSE ret'.err = "" /\ cur[g].args[1] \in DOMAIN keyrings'
             /\ (cur[g].op = "CreateCryptoKey" /\ cur[g].args[1] \in DOMAIN keyrings) =>
                   LET keyName == CryptoKeyName(cur[g].args[1], cur[g].args[2])
                   IN  IF keyName \in DOMAIN keyrings[cur[g].args[1]].CryptoKeys
                       THEN Contains(ret'.err, "already exists") /\ keyrings' = keyrings
                       ELSE /\ ret'.err = ""
                            /\ keyName \in DOMAIN keyrings'[cur[g].args[1]].CryptoKeys
             /\ cur[g].op = "CreateCryptoKeyVersion" =>
                   \A hit \in Holders(cur[g].args[1]) :
                     LET ck == keyrings[hit].CryptoKeys[cur[g].args[1]]
                         after == keyrings'[hit].CryptoKeys[cur[g].args[1]]
                     IN  /\ ret'.err = ""
                         /\ ret'.val.Name = VersionName(cur[g].args[1], ck.NextVersionID)
                         /\ ret'.val.Name \in DOMAIN after.Versions
                         /\ after.NextVersionID = ck.NextVersionID + 1
       ]_vars

\* C33 witness: two goroutines called CreateCryptoKeyVersion on the same key at the
\* same time; one has returned version 2 and still holds the lock, the other waits
\* for it with the same call.
C33_Witness ==
    \E g \in Goroutines, h \in Goroutines :
        /\ g # h /\ cur[h] = cur[g]
        /\ pc[g] = "wrote" /\ cur[g].op = "CreateCryptoKeyVersion"
        /\ ret.op = "CreateCryptoKeyVersion" /\ ret.err = ""
        /\ ret.val.Name = VersionName(cur[g].args[1], 2)
        /\ pc[h] = "waitW"

----------------------------------------------------------------------------
(* SpecOrders: the order in which Decrypt visits the versions of one key *)

\* successful creates in one run of SpecOrders
MaxOrderCreates == 3
OrderScope == Scope(OneRing, OneKeyId, {"ENABLED", "DISABLED"}, MaxOrderCreates, MaxIssued)

NextOrders ==
    \/ CallCreateKeyRing(OrderScope)
    \/ CallCreateCryptoKey(OrderScope)
    \/ CallCreateCryptoKeyVersion(OrderScope)
    \/ CallUpdateCryptoKeyPrimaryVersion(OrderScope)
    \/ CallUpdateCryptoKeyVersion(OrderScope)
    \/ CallEncrypt(OrderScope)
    \/ CallDecrypt(OrderScope)

SpecOrders == InitStorage /\ [][NextOrders]_vars

\* the versions of the stored key under whose key material ct authenticates
Authenticating(hit, keyName, ct) ==
    {v \in DOMAIN keyrings[hit].CryptoKeys[keyName].Versions :
        decryptWithVersion(keyrings[hit].CryptoKeys[keyName].Versions[v], ct).err = ""}

\* C34 - Decrypt does not depend on the visiting order.  In every reachable state,
\* for every stored key and every input (a ciphertext handed out earlier, intact
\* or corrupted), any two orders in which the range can visit the key's versions
\* give the same error and the same bytes, and at most one version's key material
\* authenticates the input.
C34_OrderIndependent ==
    \A keyName \in KeyNames(OrderScope), ct \in DecryptInputs :
      \A hit \in Holders(keyName) :
        /\ \A o1 \in VisitOrders(keyrings, hit, keyName),
              o2 \in VisitOrders(keyrings, hit, keyName) :
               LET d1 == Decrypt(keyrings, hit, keyName, ct, o1)
                   d2 == Decrypt(keyrings, hit, keyName, ct, o2)
               IN  d1.err = d2.err /\ d1.val = d2.val
        /\ Cardinality(Authenticating(hit, keyName, ct)) <= 1

\* C34 witness: a Decrypt call succeeded on a key with two ENABLED versions, through
\* the one that is not the primary, so that one visiting order meets a version that
\* fails to authenticate before the one that does.
C34_Witness ==
    /\ ret.op = "Decrypt" /\ ret.err = ""
    /\ \E hit \in Holders(ret.args[1]) :
         LET ck == keyrings[hit].CryptoKeys[ret.args[1]]
         IN  /\ EnabledIn(ck, ck.PrimaryVersion)
             /\ \E v \in Authenticating(hit, ret.args[1], ret.args[2]) :
                  v # ck.PrimaryVersion /\ EnabledIn(ck, v)

----------------------------------------------------------------------------
(* SpecValidate: every handler, given requests with and without their required  *)
(* fields, on a server with or without an IAM client                            *)

\* successful creates in one run of SpecValidate
MaxValidateCreates == 2
ValidateStates == {"DISABLED", "CRYPTO_KEY_VERSION_STATE_UNSPECIFIED"}
\* no ciphertext is remembered: the run is cut at the first Encrypt that succeeds
ValidateScope ==
    HandlerScope(OneParent, {"r"}, OneRing, OneKeyId, ValidateStates, MaxValidateCreates)

NextValidate ==
    \/ RpcCreateKeyRing(ValidateScope)
    \/ RpcGetKeyRing(ValidateScope)
    \/ RpcListKeyRings(ValidateScope)
    \/ RpcCreateCryptoKey(ValidateScope)
    \/ RpcGetCryptoKey(ValidateScope)
    \/ RpcListCryptoKeys(ValidateScope)
    \/ RpcUpdateCryptoKey(ValidateScope)
    \/ RpcEncrypt(ValidateScope)
    \/ RpcDecrypt(ValidateScope)
    \/ RpcCreateCryptoKeyVersion(ValidateScope)
    \/ RpcGetCryptoKeyVersion(ValidateScope)
    \/ RpcListCryptoKeyVersions(ValidateScope)
    \/ RpcUpdateCryptoKeyVersion(ValidateScope)
    \/ RpcUpdateCryptoKeyPrimaryVersion(ValidateScope)
    \/ RpcDestroyCryptoKeyVersion(ValidateScope)

SpecValidate == Init /\ [][NextValidate]_vars

\* the required field the request of the call recorded in r lacks, as the handler
\* names it ("" when the request has them all); of two missing fields the one the
\* handler tests first
MissingField(r) ==
    CASE r.op \in {"Server.CreateKeyRing"} ->
             IF r.args[1] = "" THEN "parent" ELSE IF r.args[2] = "" THEN "key_ring_id" ELSE ""
      [] r.op = "Server.CreateCryptoKey" ->
             IF r.args[1] = "" THEN "parent"
             ELSE IF r.args[2] = "" THEN "crypto_key_id"
             ELSE IF r.args[3].isNil THEN "crypto_key" ELSE ""
      [] r.op \in {"Server.ListKeyRings", "Server.ListCryptoKeys",
                   "Server.ListCryptoKeyVersions", "Server.CreateCryptoKeyVersion"} ->
             IF r.args[1] = "" THEN "parent" ELSE ""
      [] r.op \in {"Server.GetKeyRing", "Server.GetCryptoKey", "Server.GetCryptoKeyVersion",
                   "Server.DestroyCryptoKeyVersion"} ->
             IF r.args[1] = "" THEN "name" ELSE ""
      [] r.op = "Server.Encrypt" ->
             IF r.args[1] = "" THEN "name" ELSE IF r.args[2] = "" THEN "plaintext" ELSE ""
      [] r.op = "Server.Decrypt" ->
             IF r.args[1] = "" THEN "name"
             ELSE IF r.args[2].len = 0 THEN "ciphertext" ELSE ""
      [] r.op = "Server.UpdateCryptoKey" ->
             IF r.args[1].isNil \/ r.args[1].Name = "" THEN "crypto_key.name" ELSE ""
      [] r.op = "Server.UpdateCryptoKeyVersion" ->
             IF r.args[1].isNil \/ r.args[1].Name = "" THEN "crypto_key_version.name"
             ELSE IF r.args[1].State = "CRYPTO_KEY_VERSION_STATE_UNSPECIFIED"
             THEN "crypto_key_version.state" ELSE ""
      [] r.op = "Server.UpdateCryptoKeyPrimaryVersion" ->
             IF r.args[1] = "" THEN "name"
             ELSE IF r.args[2] = "" THEN "crypto_key_version_id" ELSE ""
      [] OTHER -> ""

\* C35 - Validation comes first.  Every RPC whose request lacks a required field (an
\* empty parent, name or id, a nil crypto_key on CreateCryptoKey, an empty plaintext
\* on Encrypt, an empty ciphertext on Decrypt, a nil or unnamed version or the state
\* CRYPTO_KEY_VERSION_STATE_UNSPECIFIED on UpdateCryptoKeyVersion) is answered
\* InvalidArgument naming that field, with no value, whatever the IAM service would
\* answer and whether or not the resource named is stored, and the hierarchy, the
\* clock and the ciphertexts handed out are as before.
C35_ValidationFirst ==
    [][ MissingField(ret') # "" =>
          /\ ret'.code = "InvalidArgument"
          /\ ret'.err = MissingField(ret') \o " is required"
          /\ ret'.val = Nil
          /\ keyrings' = keyrings /\ clock' = clock /\ issued' = issued
      ]_vars

\* C35 witness: on a server whose IAM service denies the call, UpdateCryptoKeyVersion
\* of a stored version with the state unspecified was answered InvalidArgument.
C35_Witness ==
    /\ iamClient = "client"
    /\ ret.op = "Server.UpdateCryptoKeyVersion" /\ ret.code = "InvalidArgument"
    /\ IamAnswerIn(ret) = "denied"
    /\ ret.args[1].State = "CRYPTO_KEY_VERSION_STATE_UNSPECIFIED"
    /\ \E x \in StoredVersions(keyrings) : x[3] = ret.args[1].Name

----------------------------------------------------------------------------
(* Checked under SpecCrypt: a version set back to ENABLED *)

\* in the hierarchy ks, Decrypt(keyName, ct) returns exactly the plaintext in whatever
\* order the versions of the key are visited
DecryptsToIn(ks, hit, keyName, ct, plaintext) ==
    \A order \in VisitOrders(ks, hit, keyName) :
        LET d == Decrypt(ks, hit, keyName, ct, order)
        IN  d.err = "" /\ d.val = [kind |-> "bytes", bytes |-> plaintext]

\* the step is a successful UpdateCryptoKeyVersion(x[3], ENABLED) on the stored
\* version x, which was in another state
ReEnables(x) ==
    /\ ret'.op = "UpdateCryptoKeyVersion" /\ ret'.err = ""
    /\ ret'.args = <<x[3], "ENABLED">>
    /\ StateOf(keyrings, x) # "ENABLED"

\* C36 - Re-enabling restores decryptability.  When UpdateCryptoKeyVersion sets back
\* to ENABLED a version that was DISABLED, DESTROY_SCHEDULED or DESTROYED, the
\* version's key material is what it was, and every ciphertext that version handed
\* out, which failed to decrypt before the call, decrypts to its original plaintext
\* after it.
C36_ReEnable ==
    [][ \A x \in StoredVersions(keyrings) : ReEnables(x) =>
          /\ StateOf(keyrings', x) = "ENABLED"
          /\ MaterialOf(keyrings', x) = MaterialOf(keyrings, x)
          /\ \A i \in issued : (i.keyName = x[2] /\ i.version = x[3]) =>
                /\ \A order \in VisitOrders(keyrings, x[1], x[2]) :
                      Decrypt(keyrings, x[1], x[2], i.ct, order).err # ""
                /\ DecryptsToIn(keyrings', x[1], x[2], i.ct, i.plaintext)
      ]_vars

\* C36 witness: UpdateCryptoKeyVersion has just set to ENABLED a version that is not
\* its key's primary and that handed out a ciphertext earlier.
C36_Witness ==
    /\ ret.op = "UpdateCryptoKeyVersion" /\ ret.err = ""
    /\ ret.args[2] = "ENABLED"
    /\ \E x \in StoredVersions(keyrings) :
         /\ x[3] = ret.args[1] /\ ~IsPrimary(keyrings, x)
         /\ \E i \in issued : i.keyName = x[2] /\ i.version = x[3]

----------------------------------------------------------------------------
(* Checked under SpecVersions: the states DestroyCryptoKeyVersion accepts *)

\* ks with the state of the stored version x set, and nothing else changed
WithState(ks, x, state) ==
    [ks EXCEPT ![x[1]].CryptoKeys[x[2]].Versions[x[3]].State = state]

\* C37 - The destroy guard.  DestroyCryptoKeyVersion on a stored version fails and
\* changes nothing when the version is DESTROY_SCHEDULED or DESTROYED; from every
\* other state (ENABLED, DISABLED, PENDING_GENERATION) it succeeds, whether or not
\* the version is its key's primary or its only ENABLED version, returns the version
\* as DESTROY_SCHEDULED, and the hierarchy after it differs from the one before in
\* the state of that one version only.
C37_DestroyAccepted ==
    [][ ret'.op = "DestroyCryptoKeyVersion" =>
          \A x \in StoredVersions(keyrings) : x[3] = ret'.args[1] =>
            IF StateOf(keyrings, x) \in {"DESTROY_SCHEDULED", "DESTROYED"}
            THEN ret'.err # "" /\ ret'.val = Nil /\ keyrings' = keyrings
            ELSE /\ ret'.err = ""
                 /\ ret'.val.Name = x[3] /\ ret'.val.State = "DESTROY_SCHEDULED"
                 /\ keyrings' = WithState(keyrings, x, "DESTROY_SCHEDULED")
      ]_vars

\* C37 witness: DestroyCryptoKeyVersion has just succeeded on a version that is its
\* key's primary while no version of the key is ENABLED and another is
\* PENDING_GENERATION.
C37_Witness ==
    /\ ret.op = "DestroyCryptoKeyVersion" /\ ret.err = ""
    /\ \E x \in StoredVersions(keyrings) :
         LET ck == keyrings[x[1]].CryptoKeys[x[2]]
         IN  /\ x[3] = ret.args[1] /\ IsPrimary(keyrings, x)
             /\ \A v \in DOMAIN ck.Versions : ~EnabledIn(ck, v)
             /\ \E v \in DOMAIN ck.Versions : ck.Versions[v].State = "PENDING_GENERATION"

----------------------------------------------------------------------------
(* Two crypto keys and their ciphertexts *)

MaxIsolationCreates == 4

IsolationScope ==
    Scope(OneRing, KeyIds, {"DISABLED"}, MaxIsolationCreates, MaxIssued)

NextIsolation ==
    \/ CallCreateKeyRing(IsolationScope)
    \/ CallCreateCryptoKey(IsolationScope)
    \/ CallCreateCryptoKeyVersion(IsolationScope)
    \/ CallUpdateCryptoKeyVersion(IsolationScope)
    \/ CallEncrypt(IsolationScope)
    \/ CallDecrypt(IsolationScope)

SpecIsolation == InitStorage /\ [][NextIsolation]_vars

\* the stored crypto keys other than the one ct was sealed under
OtherKeys(i) ==
    {keyName \in KeyNames(IsolationScope) :
        keyName # i.keyName /\ Holders(keyName) # {}}

\* C38 - Key isolation.  In every reachable state no two stored versions, of the
\* same key or of different keys, hold the same key material, and for every
\* ciphertext Encrypt has returned and every other stored crypto key, whatever the
\* states of its versions, Decrypt with that key's name fails in every order of
\* visiting its versions and returns no plaintext.
C38_KeyIsolation ==
    /\ \A x, y \in StoredVersions(keyrings) :
          x # y => MaterialOf(keyrings, x) # MaterialOf(keyrings, y)
    /\ \A i \in issued : \A keyName \in OtherKeys(i) :
          \A hit \in Holders(keyName) : DecryptFails(hit, keyName, i.ct)

\* C38 witness: Decrypt has just failed on a ciphertext sealed under another key,
\* while the key it named has two ENABLED versions and the ciphertext still decrypts
\* under its own key.
C38_Witness ==
    /\ ret.op = "Decrypt" /\ ret.err # ""
    /\ \E i \in issued :
         /\ i.ct = ret.args[2] /\ ret.args[1] \in OtherKeys(i)
         /\ \E hit \in Holders(ret.args[1]) :
              LET ck == keyrings[hit].CryptoKeys[ret.args[1]]
              IN  Cardinality({v \in DOMAIN ck.Versions : EnabledIn(ck, v)}) = 2
         /\ \E hit \in Holders(i.keyName) : DecryptsTo(hit, i.keyName, i.ct, i.plaintext)

----------------------------------------------------------------------------
(* Checked under SpecOddNames: the status code and the cause of the failure *)

\* The status the error-handling contract of the server package gives the request
\* r in the hierarchy ks, by the cause of its failure: NotFound when the resource
\* named is not stored, AlreadyExists when the resource to create is stored,
\* FailedPrecondition when the version named is stored in a state the operation
\* refuses; "" for the requests and operations the contract's cases do not decide.
StatusByCause(ks, r) ==
    CASE r.op = "Server.CreateCryptoKey"
           /\ r.args[1] # "" /\ r.args[2] # "" /\ ~r.args[3].isNil ->
             IF r.args[1] \notin DOMAIN ks THEN "NotFound"
             ELSE IF CryptoKeyName(r.args[1], r.args[2]) \in DOMAIN ks[r.args[1]].CryptoKeys
                  THEN "AlreadyExists"
                  ELSE ""
      [] r.op = "Server.UpdateCryptoKeyPrimaryVersion"
           /\ r.args[1] # "" /\ r.args[2] # "" ->
             LET versionName == RequestedVersionName(r.args[1], r.args[2])
                 holders == KeyHits(ks, r.args[1]) \ {NoHit}
             IN  IF \A h \in holders :
                        versionName \notin DOMAIN ks[h].CryptoKeys[r.args[1]].Versions
                 THEN "NotFound"
                 ELSE IF \A h \in holders :
                            ~EnabledIn(ks[h].CryptoKeys[r.args[1]], versionName)
                      THEN "FailedPrecondition"
                      ELSE ""
      [] r.op = "Server.DestroyCryptoKeyVersion" /\ r.args[1] # "" ->
             LET stored == {x \in StoredVersions(ks) : x[3] = r.args[1]}
             IN  IF stored = {} THEN "NotFound"
                 ELSE IF \A x \in stored :
                            StateOf(ks, x) \in {"DESTROY_SCHEDULED", "DESTROYED"}
                      THEN "FailedPrecondition"
                      ELSE ""
      [] OTHER -> ""

\* C39 - Status by cause.  Whatever the text of the names in the request, a
\* CreateCryptoKey, UpdateCryptoKeyPrimaryVersion or DestroyCryptoKeyVersion call that
\* fails because the resource named is absent answers NotFound, one that fails
\* because the key to create is stored answers AlreadyExists, and one that fails
\* because of the state of the version named answers FailedPrecondition.  (The code
\* picks the status by searching the error message, which embeds the names, for
\* "already exists", "not found", "not enabled" and "already destroyed".)
C39_StatusByCause ==
    [][ StatusByCause(keyrings, ret') # "" =>
            ret'.code = StatusByCause(keyrings, ret') ]_vars

----------------------------------------------------------------------------
(* Checked under SpecLabels: UpdateCryptoKey without labels *)

\* the labels stored for the crypto key of this name (it is stored)
LabelsOf(ks, keyName) ==
    LET r == CHOOSE r \in KeyHits(ks, keyName) : r # NoHit
    IN  ks[r].CryptoKeys[keyName].Labels

\* C40 - UpdateCryptoKey with no labels.  A Server.UpdateCryptoKey call on a stored
\* key succeeds; with a nil label map the labels stored for the key after the call
\* are the labels stored before it, with a label map that is not nil they are the
\* map supplied; the key returned carries the labels stored after the call.
C40_NilLabelsKept ==
    [][ (UpdateCryptoKeyStep /\ KeyStored(keyrings, ret'.args[1].Name)) =>
          LET name == ret'.args[1].Name
              labels == ret'.args[1].Labels
          IN  /\ ret'.code = "OK" /\ KeyStored(keyrings', name)
              /\ labels.isNil => LabelsOf(keyrings', name) = LabelsOf(keyrings, name)
              /\ ~labels.isNil => LabelsOf(keyrings', name) = labels
              /\ ret'.val.Labels = LabelsOf(keyrings', name)
      ]_vars

\* C40 witness: UpdateCryptoKey with a nil label map has just succeeded and returned
\* the key with the labels team=a that an earlier call stored, beside a second
\* version created for the key.
C40_Witness ==
    /\ ret.op = "Server.UpdateCryptoKey" /\ ret.code = "OK"
    /\ ~ret.args[1].isNil /\ ret.args[1].Labels = NilLabels
    /\ ret.val.Labels = LabelArg("team=a")
    /\ LabelsOf(keyrings, ret.args[1].Name) = LabelArg("team=a")
    /\ \E x \in StoredVersions(keyrings) : x[2] = ret.args[1].Name /\ x[3] # ret.val.Primary.Name

====
